---- MODULE Spec2Model ----
(***************************************************************************)
(* Model of the Telegram MCP bridge (salto-mcp-telegram).                  *)
(*                                                                         *)
(*   SpecLimiter     utils/rateLimit.ts: the token bucket driven by        *)
(*                   anonymous acquire() callers and the refill timer.     *)
(*   Spec            services/telegram.ts: one TelegramService call        *)
(*                   (sendMessage, sendDocument, getChat, getUpdates) with *)
(*                   makeRequest's retry loop over the limiter, for every  *)
(*                   reply of the provider.  Calls interact only through   *)
(*                   the limiter.                                          *)
(*   SpecLimiterFair SpecLimiter with the refill timer firing for ever.    *)
(*   SpecFair        Spec with its timers firing and its requests ending.  *)
(*   SpecConcurrent  NumCalls getUpdates calls competing for the limiter.  *)
(*   SpecSessions    http/sse.ts: the sessions of the SSE transport over   *)
(*                   the shared McpServer: open, connect, keepalive,       *)
(*                   close, route, and the handlers' responses.            *)
(*   SpecRoute       http/sse.ts: GET /sse and POST /messages under every  *)
(*                   request explored (headers, session ids, bodies).      *)
(*   SpecNormalize   http/messages.ts: normalizeIncomingMessage applied to *)
(*                   each input explored.                                  *)
(*   SpecClassify    services/telegram.ts: createTelegramError applied to  *)
(*                   each failure explored.                                *)
(*   SpecResolve     services/files.ts: resolveFileInput applied to each   *)
(*                   file and byte ceiling explored.                       *)
(*   SpecFileName    services/files.ts: the filename resolveFileInput      *)
(*                   returns, for each filename argument explored.         *)
(*   SpecErrors      utils/errors.ts, mcp/server.ts: each thrown value     *)
(*                   rendered by a tool handler and by POST /messages.     *)
(*                                                                         *)
(* Strings whose characters the code inspects (chat ids, allow-list        *)
(* entries) are sequences of one-character strings.                        *)
(***************************************************************************)
EXTENDS Integers, Sequences, FiniteSets, TLC

VARIABLES
  \* RateLimiter (utils/rateLimit.ts)
  limit,          \* constructor argument `limit`
  tokens,         \* this.tokens
  queue,          \* this.queue: the pending resolvers, named by their ticket
  \* observation of the limiter
  nextTicket,     \* number of acquire() calls so far; a call's ticket is its arrival rank
  granted,        \* the tickets granted so far, in the order they were granted
  sinceTick,      \* grants since the last refill tick (the tick's own releases included)
  \* TelegramService configuration
  maxRetries,     \* config.maxRetries
  allowedChatIds, \* config.allowedChatIds
  \* one record per service call
  call,
  \* HTTP transport (http/sse.ts, http/messages.ts)
  authBearer,     \* env.authBearer as characters (<<>>: not configured)
  sessions,       \* the `sessions` map: session id -> id, createdAt, lastSeenAt
  timers,         \* the sessions whose keepAlive interval is running
  channel,        \* the channels of the GET /sse requests, by session id
  serverTransport,\* the transport the shared McpServer holds (0: none)
  now,            \* Date.now()
  inflight,       \* the requests handed to the server whose handler has not ended
  \* observation of the transport
  forwarded,      \* number of handleMessage calls that returned
  response,       \* the last HTTP response sent
  \* one call of normalizeIncomingMessage (http/messages.ts)
  raw,            \* its argument and env.allowLegacyBody
  normalized,     \* what it returned or threw
  \* one call of createTelegramError (services/telegram.ts)
  failure,        \* its arguments: status, description, meta.operation, meta.originalChatId
  classified,     \* the status and code of the AppError it returned
  \* one call of resolveFileInput (services/files.ts)
  source,         \* its arguments `file` and `maxBytes`, with what the URL's server does
  resolved,       \* the buffer it returned or the AppError it threw
  \* one failure rendered at a protocol boundary (utils/errors.ts, mcp/server.ts)
  outcome,        \* what the provider call ended in, or the value caught
  rendered,       \* the tool result or the HTTP response made of it
  \* observation of the waiters of SpecLimiter
  waits           \* ticket -> the position it was queued at, the refill ticks it has seen

sessionVars == <<authBearer, sessions, timers, channel, serverTransport, now,
                 inflight, forwarded, response>>

normalizerVars == <<raw, normalized>>

classifierVars == <<failure, classified>>

\* The variables of the specifications that apply one function to its inputs
resolverVars == <<source, resolved>>

rendererVars == <<outcome, rendered>>

functionVars == <<normalizerVars, classifierVars, resolverVars, rendererVars>>

vars == <<limit, tokens, queue, nextTicket, granted, sinceTick,
          maxRetries, allowedChatIds, call, sessionVars, functionVars, waits>>

limiterVars == <<limit, tokens, queue, nextTicket, granted, sinceTick>>

configVars == <<maxRetries, allowedChatIds>>

(***************************************************************************)
(* Bounds                                                                  *)
(***************************************************************************)
MaxLimit == 3        \* largest bucket capacity explored
MaxTickets == 8      \* acquire() calls per behaviour of SpecLimiter
NumCalls == 2        \* concurrent service calls in Spec
MaxSessions == 2     \* GET /sse requests accepted per behaviour of SpecSessions
MaxRequests == 1     \* envelopes forwarded per behaviour of SpecSessions
MaxPings == 2        \* keepalive writes attempted per behaviour of SpecSessions
MaxBytes == 2        \* largest byte ceiling (maxBytes) of SpecResolve
MaxName == 3         \* longest filename argument of SpecFileName, in characters
MaxNow == 1          \* last instant of the clock

(***************************************************************************)
(* RateLimiter                                                             *)
(***************************************************************************)
\* acquire(): `if (this.tokens > 0)`, the immediate path
hasTokenOffByOne(t) == t >= 0

hasToken(t) == t > 0

\* refill(): `this.tokens = this.limit`
refillTokensAdd(lim, t) == t + lim

refillTokens(lim, t) == lim

\* processQueue(): `this.queue.shift()`, as the index of the resolver taken
shiftIndexLast(q) == Len(q)

shiftIndex(q) == 1

RemoveAt(q, i) == SubSeq(q, 1, i - 1) \o SubSeq(q, i + 1, Len(q))

processQueueOnce(t, q, released) ==
  IF hasToken(t) /\ Len(q) > 0
    THEN [tokens |-> t - 1, queue |-> Tail(q), released |-> <<Head(q)>>]
    ELSE [tokens |-> t, queue |-> q, released |-> released]

\* processQueue(): the while loop; `released` lists the resolvers called, in order
RECURSIVE processQueue(_, _, _)
processQueue(t, q, released) ==
  IF hasToken(t) /\ Len(q) > 0
    THEN processQueue(t - 1, RemoveAt(q, shiftIndex(q)), Append(released, q[shiftIndex(q)]))
    ELSE [tokens |-> t, queue |-> q, released |-> released]

\* No caller has been suspended
NoWaits == waits = <<>>

\* refill(): reset the bucket, then drain the queue
refill == processQueue(refillTokens(limit, tokens), queue, <<>>)

SeqRange(s) == {s[i] : i \in 1..Len(s)}

\* The limiter's part of one acquire() call, for the caller holding ticket nextTicket + 1.
\* Returns through queue' whether the caller was granted at once or suspended.
acquire ==
  /\ nextTicket' = nextTicket + 1
  /\ IF hasToken(tokens)
       THEN /\ tokens' = tokens - 1
            /\ queue' = queue
            /\ granted' = Append(granted, nextTicket + 1)
            /\ sinceTick' = sinceTick + 1
       ELSE /\ tokens' = tokens
            /\ queue' = Append(queue, nextTicket + 1)
            /\ granted' = granted
            /\ sinceTick' = sinceTick
  /\ limit' = limit

\* The limiter's part of one refill tick (the setInterval callback).
refillTick ==
  /\ tokens' = refill.tokens
  /\ queue' = refill.queue
  /\ granted' = granted \o refill.released
  /\ sinceTick' = Len(refill.released)
  /\ UNCHANGED <<limit, nextTicket>>

(***************************************************************************)
(* Values of TelegramService                                               *)
(***************************************************************************)
\* env.telegram.maxRetries, the configured ceiling; Spec explores 0..maxRetriesDefault
maxRetriesDefault == 2

\* A chat id is `string | number`.
Num(n) == [t |-> "num", n |-> n, s |-> <<>>]

Str(s) == [t |-> "str", n |-> 0, s |-> s]

NoChat == [t |-> "none", n |-> 0, s |-> <<>>]

Digit == <<"0", "1", "2", "3", "4", "5", "6", "7", "8", "9">>

\* Number.prototype.toString for an integer, as its characters
RECURSIVE NatToStr(_)
NatToStr(n) == IF n < 10 THEN <<Digit[n + 1]>> ELSE Append(NatToStr(n \div 10), Digit[(n % 10) + 1])

IntToStr(n) == IF n < 0 THEN <<"-">> \o NatToStr(0 - n) ELSE NatToStr(n)

\* String(chatId)
String(v) == IF v.t = "num" THEN IntToStr(v.n) ELSE v.s

startsWithAtNever(s) == FALSE

\* chatId.startsWith("@")
startsWithAt(s) == Len(s) > 0 /\ s[1] = "@"

\* Destinations a caller passes, allow-list entries, and ids the provider resolves to
Dest1 == <<"1">>

Dest2 == <<"2">>

DestAlias == <<"@", "a">>

Dests == {Dest1, Dest2, DestAlias}

AllowLists == SUBSET {Dest1, DestAlias}

ChatIds == {1, 2}

\* Provider and transport messages
MsgChatNotFound == "Bad Request: chat not found"

MsgBlocked == "Forbidden: bot was blocked by the user"

MsgCantInitiate == "Forbidden: bot can't initiate conversation with a user"

MsgTooMany == "Too Many Requests: retry after 5"

MsgUnexpected == "Unexpected response from Telegram"

MsgDefault == "Telegram API request failed"

MsgTimeout == "timeout of 15000ms exceeded"

MsgSocket == "socket hang up"

MsgStatus == "Request failed with status code"

MsgNotFound == "Not Found"

MsgBlockedUpper == "FORBIDDEN: BOT WAS BLOCKED BY THE USER"

\* A description in which both patterns occur
MsgNotFoundBlocked == "Bad Request: chat not found: bot was blocked by the user"

\* message.toLowerCase().includes(pattern), over the messages above
includes(msg, pattern) ==
  CASE pattern = "chat not found" -> msg \in {MsgChatNotFound, MsgNotFoundBlocked}
    [] pattern = "bot was blocked by the user" ->
         msg \in {MsgBlocked, MsgBlockedUpper, MsgNotFoundBlocked}
    [] pattern = "can't initiate conversation" -> msg \in {MsgCantInitiate}
    [] OTHER -> FALSE

\* What one HTTP attempt can end in.  http = 0: no response arrived.
\* ok / result: the body's `ok` flag and whether `result` is truthy.
Reply(http, code, ok, result, desc, message) ==
  [http |-> http, code |-> code, ok |-> ok, result |-> result, desc |-> desc, message |-> message]

ReplyOk == Reply(200, "", TRUE, TRUE, "", "")

ReplyNotOk == Reply(200, "", FALSE, FALSE, MsgChatNotFound, "")

ReplyNoResult == Reply(200, "", TRUE, FALSE, "", "")

Reply400 == Reply(400, "ERR_BAD_REQUEST", FALSE, FALSE, MsgChatNotFound, MsgStatus)

Reply403 == Reply(403, "ERR_BAD_REQUEST", FALSE, FALSE, MsgBlocked, MsgStatus)

Reply429 == Reply(429, "ERR_BAD_REQUEST", FALSE, FALSE, MsgTooMany, MsgStatus)

Reply404 == Reply(404, "ERR_BAD_REQUEST", FALSE, FALSE, MsgNotFound, MsgStatus)

Reply500 == Reply(500, "ERR_BAD_RESPONSE", FALSE, FALSE, "", MsgStatus)

ReplyTimeout == Reply(0, "ECONNABORTED", FALSE, FALSE, "", MsgTimeout)

ReplyReset == Reply(0, "ECONNRESET", FALSE, FALSE, "", MsgSocket)

Replies == {ReplyOk, ReplyNotOk, ReplyNoResult, Reply400, Reply403, Reply404, Reply429,
            Reply500, ReplyTimeout, ReplyReset}

\* axios resolves the promise for a 2xx status and rejects otherwise
resolves(r) == r.http >= 200 /\ r.http < 300

\* `!response.data?.ok || !response.data.result`
bodyFailed(r) == ~r.ok \/ ~r.result

\* The value the catch block of makeRequest sees, read as an AxiosError:
\* code, response?.status (0: undefined), response?.data?.description, message
Caught(code, status, desc, message) ==
  [code |-> code, status |-> status, desc |-> desc, message |-> message]

\* makeRequest, the try block: what a reply throws
thrown(r) ==
  IF resolves(r)
    THEN Caught("TELEGRAM_API_ERROR", 0, "", IF r.desc # "" THEN r.desc ELSE MsgUnexpected)
    ELSE Caught(r.code, r.http, r.desc, r.message)

\* shouldRetry
shouldRetryFrom400(error) ==
  IF error.code = "ECONNABORTED" THEN TRUE
  ELSE IF error.status = 0 THEN TRUE
  ELSE error.status >= 400

shouldRetry(error) ==
  IF error.code = "ECONNABORTED" THEN TRUE
  ELSE IF error.status = 0 THEN TRUE
  ELSE error.status >= 500

\* makeRequest: `attempt < this.config.maxRetries`
attemptsRemainInclusive(attempt, max) == attempt <= max

attemptsRemain(attempt, max) == attempt < max

\* makeRequest: `2 ** attempt * 300`
delayMsConstant(attempt) == 300

delayMs(attempt) == (2 ^ attempt) * 300

\* makeRequest: `axiosError.response?.status ?? 500`
statusOfResponseOnly(error) == error.status

statusOf(error) == IF error.status = 0 THEN 500 ELSE error.status

\* makeRequest: `axiosError.response?.data?.description || axiosError.message`
descriptionOf(error) == IF error.desc # "" THEN error.desc ELSE error.message

Failure(status, code) == [kind |-> "error", status |-> status, code |-> code]

Success == [kind |-> "ok", status |-> 200, code |-> ""]

Pending == [kind |-> "none", status |-> 0, code |-> ""]

createTelegramErrorStatusFirst(status, description, operation, originalChatId) ==
  LET message == IF description # "" THEN description ELSE MsgDefault
  IN  IF /\ operation = "getChat"
         /\ status = 400
         /\ startsWithAt(originalChatId)
         /\ includes(message, "chat not found")
        THEN Failure(400, "TELEGRAM_CHAT_NOT_FOUND")
      ELSE IF status = 403 THEN Failure(403, "TELEGRAM_FORBIDDEN")
      ELSE IF status = 400 THEN Failure(400, "TELEGRAM_BAD_REQUEST")
      ELSE IF includes(message, "bot was blocked by the user") \/ includes(message, "can't initiate conversation")
        THEN Failure(403, "TELEGRAM_FORBIDDEN")
      ELSE IF status = 429 THEN Failure(429, "TELEGRAM_API_ERROR")
      ELSE IF status >= 500 THEN Failure(status, "TELEGRAM_API_ERROR")
      ELSE Failure(IF status # 0 THEN status ELSE 502, "TELEGRAM_MESSAGE_NOT_DELIVERED")

createTelegramErrorKeepsStatus(status, description, operation, originalChatId) ==
  LET message == IF description # "" THEN description ELSE MsgDefault
  IN  IF /\ operation = "getChat"
         /\ status = 400
         /\ startsWithAt(originalChatId)
         /\ includes(message, "chat not found")
        THEN Failure(400, "TELEGRAM_CHAT_NOT_FOUND")
      ELSE IF includes(message, "bot was blocked by the user") \/ includes(message, "can't initiate conversation")
        THEN Failure(403, "TELEGRAM_FORBIDDEN")
      ELSE IF status = 403 THEN Failure(403, "TELEGRAM_FORBIDDEN")
      ELSE IF status = 400 THEN Failure(400, "TELEGRAM_BAD_REQUEST")
      ELSE IF status = 429 THEN Failure(429, "TELEGRAM_API_ERROR")
      ELSE IF status >= 500 THEN Failure(status, "TELEGRAM_API_ERROR")
      ELSE Failure(status, "TELEGRAM_MESSAGE_NOT_DELIVERED")

\* createTelegramError: the status and code of the AppError it returns
createTelegramError(status, description, operation, originalChatId) ==
  LET message == IF description # "" THEN description ELSE MsgDefault
  IN  IF /\ operation = "getChat"
         /\ status = 400
         /\ startsWithAt(originalChatId)
         /\ includes(message, "chat not found")
        THEN Failure(400, "TELEGRAM_CHAT_NOT_FOUND")
      ELSE IF includes(message, "bot was blocked by the user") \/ includes(message, "can't initiate conversation")
        THEN Failure(403, "TELEGRAM_FORBIDDEN")
      ELSE IF status = 403 THEN Failure(403, "TELEGRAM_FORBIDDEN")
      ELSE IF status = 400 THEN Failure(400, "TELEGRAM_BAD_REQUEST")
      ELSE IF status = 429 THEN Failure(429, "TELEGRAM_API_ERROR")
      ELSE IF status >= 500 THEN Failure(status, "TELEGRAM_API_ERROR")
      ELSE Failure(IF status # 0 THEN status ELSE 502, "TELEGRAM_MESSAGE_NOT_DELIVERED")

\* ensureChatAccess: TRUE when it returns, FALSE when it throws 403 TELEGRAM_CHAT_NOT_ALLOWED
ensureChatAccessNoEmptyCase(allowed, chatId) == String(chatId) \in allowed

ensureChatAccess(allowed, chatId) ==
  IF Cardinality(allowed) = 0 THEN TRUE
  ELSE String(chatId) \in allowed

NotAllowed == Failure(403, "TELEGRAM_CHAT_NOT_ALLOWED")

\* resolveFileInput, as the caller sees it: the file, or the AppError thrown
FileOutcomes == {Success, Failure(400, "FILE_INVALID_SOURCE"),
                 Failure(413, "TELEGRAM_DOCUMENT_TOO_LARGE"), Failure(502, "FILE_DOWNLOAD_FAILED")}

(***************************************************************************)
(* Resource resolver (services/files.ts)                                   *)
(***************************************************************************)
\* A `file` argument.  scheme: "data" for a string starting with "data:",
\* "invalid" for a string new URL() rejects, else the protocol of the URL;
\* wellFormed, chars: DATA_URI_REGEX matches, and the number of base64
\* characters of its data group; fetch, bytes: what the GET of the URL ends in
\* ("ok": a 2xx response) and the length of the body the server sends;
\* capEnforced: axios stops a transfer that exceeds maxContentLength;
\* segment: url.pathname.split("/").pop(), the text after the last "/" of the path
File(scheme, wellFormed, chars, fetch, bytes, capEnforced, segment) ==
  [scheme |-> scheme, wellFormed |-> wellFormed, chars |-> chars, fetch |-> fetch,
   bytes |-> bytes, capEnforced |-> capEnforced, segment |-> segment]

\* Buffer.from(data, "base64").byteLength for chars unpadded characters
base64Bytes(chars) == (chars * 3) \div 4

\* A string is the sequence of its characters.  "LF" is the line feed (code 10),
\* "NUL" the character of code 0; the other characters stand for themselves
ControlCharacters == {"NUL", "LF", "CR", "DEL"}

\* [\w\-.]: the characters the pattern of stripFileName leaves alone
WordCharacters == {"x", "d", "o", "c", "u", "m", "e", "n", "t", "_"}

SafeCharacters == WordCharacters \cup {"-", "."}

Document == <<"d", "o", "c", "u", "m", "e", "n", "t">>

\* The greatest index of s, at most `upTo`, whose character satisfies Test; 0 if none
LastIndex(s, upTo, Test(_)) ==
  IF \E i \in 1..upTo : Test(s[i])
    THEN CHOOSE i \in 1..upTo : Test(s[i]) /\ \A j \in (i + 1)..upTo : ~Test(s[j])
    ELSE 0

\* path.basename (posix): trailing "/" are dropped, then what follows the last "/"
basename(path) ==
  LET end == LastIndex(path, Len(path), LAMBDA c : c # "/")
      start == LastIndex(path, end, LAMBDA c : c = "/") + 1
  IN  SubSeq(path, start, end)

\* value.replace(/[^\w\-.]+/g, "_"): each run of other characters becomes one "_"
RECURSIVE replaceUnsafe(_)
replaceUnsafe(value) ==
  IF value = <<>> THEN <<>>
  ELSE IF Head(value) \in SafeCharacters THEN <<Head(value)>> \o replaceUnsafe(Tail(value))
  ELSE IF Len(value) > 1 /\ value[2] \notin SafeCharacters THEN replaceUnsafe(Tail(value))
  ELSE <<"_">> \o replaceUnsafe(Tail(value))

stripFileName(input) == replaceUnsafe(basename(input))

\* Characters of code 10, 13, and of code 32 and above other than 127 are kept
stripControlCharacters(value) ==
  SelectSeq(value, LAMBDA c : c \in {"LF", "CR"} \/ c \notin ControlCharacters)

\* a || b for strings: the empty string is falsy
OrElse(a, b) == IF a # <<>> THEN a ELSE b

\* What resolveFileInput does: it returns a buffer of `bytes` bytes under the name
\* filename, or throws err.  fetched: axios.get was called
ResolvedFile(bytes, filename) ==
  [err |-> Success, bytes |-> bytes, filename |-> filename, fetched |-> FALSE]

FileError(err) == [err |-> err, bytes |-> 0, filename |-> <<>>, fetched |-> FALSE]

Fetched(result) == [result EXCEPT !.fetched = TRUE]

TooLarge == Failure(413, "TELEGRAM_DOCUMENT_TOO_LARGE")

InvalidSource == Failure(400, "FILE_INVALID_SOURCE")

DownloadFailed == Failure(502, "FILE_DOWNLOAD_FAILED")

\* What axios.get rejects with
AxiosError == [kind |-> "axios", status |-> 0, code |-> ""]

\* The try block of the URL branch: axios.get with maxContentLength: maxBytes
\* rejects on a transport failure and on a body over the cap; the buffer of the
\* response is then checked against maxBytes
download(file, filename, maxBytes) ==
  IF file.fetch # "ok" THEN Fetched(FileError(AxiosError))
  ELSE IF file.capEnforced /\ file.bytes > maxBytes THEN Fetched(FileError(AxiosError))
  ELSE IF file.bytes > maxBytes THEN Fetched(FileError(TooLarge))
  ELSE Fetched(ResolvedFile(file.bytes,
         stripControlCharacters(stripFileName(OrElse(filename, OrElse(file.segment, Document))))))

resolveFileInputUnchecked(file, filename, maxBytes) ==
  IF file.scheme = "data"
    THEN IF ~file.wellFormed \/ file.chars = 0 THEN FileError(InvalidSource)
         ELSE ResolvedFile(base64Bytes(file.chars),
                stripControlCharacters(stripFileName(OrElse(filename, Document))))
  ELSE IF file.scheme = "invalid" THEN FileError(InvalidSource)
  ELSE IF file.scheme \notin {"http:", "https:"} THEN FileError(InvalidSource)
  ELSE IF download(file, filename, maxBytes).err # Success
    THEN Fetched(FileError(DownloadFailed))
  ELSE download(file, filename, maxBytes)

resolveFileInputAnyProtocol(file, filename, maxBytes) ==
  IF file.scheme = "data"
    THEN IF ~file.wellFormed \/ file.chars = 0 THEN FileError(InvalidSource)
         ELSE IF base64Bytes(file.chars) > maxBytes THEN FileError(TooLarge)
         ELSE ResolvedFile(base64Bytes(file.chars),
                stripControlCharacters(stripFileName(OrElse(filename, Document))))
  ELSE IF file.scheme = "invalid" THEN FileError(InvalidSource)
  ELSE IF download(file, filename, maxBytes).err # Success
    THEN Fetched(FileError(DownloadFailed))
  ELSE download(file, filename, maxBytes)

\* resolveFileInput(file, filename, maxBytes); the catch of the URL branch wraps
\* whatever its try block throws
resolveFileInput(file, filename, maxBytes) ==
  IF file.scheme = "data"
    THEN IF ~file.wellFormed \/ file.chars = 0 THEN FileError(InvalidSource)
         ELSE IF base64Bytes(file.chars) > maxBytes THEN FileError(TooLarge)
         ELSE ResolvedFile(base64Bytes(file.chars),
                stripControlCharacters(stripFileName(OrElse(filename, Document))))
  ELSE IF file.scheme = "invalid" THEN FileError(InvalidSource)
  ELSE IF file.scheme \notin {"http:", "https:"} THEN FileError(InvalidSource)
  ELSE IF download(file, filename, maxBytes).err # Success
    THEN Fetched(FileError(DownloadFailed))
  ELSE download(file, filename, maxBytes)

\* The files resolveFileInput is applied to
Sizes == 0..(MaxBytes + 1)

DataUris ==
  {File("data", FALSE, 0, "none", 0, TRUE, <<>>)}
    \cup {File("data", TRUE, chars, "none", 0, TRUE, <<>>) : chars \in 1..(2 * MaxBytes)}

Fetches == {"ok", "timeout", "reset", "status404", "status500"}

Urls ==
  {File(scheme, TRUE, 0, fetch, bytes, capEnforced, <<"x">>) :
     scheme \in {"http:", "https:"}, fetch \in Fetches, bytes \in Sizes,
     capEnforced \in BOOLEAN}

\* A string new URL() rejects, and URLs of other protocols whose resource a GET
\* would return
OtherSources ==
  {File("invalid", TRUE, 0, "none", 0, TRUE, <<>>)}
    \cup {File(scheme, TRUE, 0, "ok", 1, TRUE, <<"x">>) : scheme \in {"ftp:", "file:"}}

Files == DataUris \cup Urls \cup OtherSources

\* The filename arguments: every string of at most MaxName characters over a word
\* character, the dot, the slash, the space and the line feed, and "../../x"
NameCharacters == {"x", ".", "/", " ", "LF"}

TraversalName == <<".", ".", "/", ".", ".", "/", "x">>

FileNames ==
  UNION {[1..n -> NameCharacters] : n \in 0..MaxName} \cup {TraversalName}

\* One inline payload and URLs whose path ends in "", "x" and "x%20"; the URL
\* parser resolves the segments "." and "..", so the path never ends in one
NamedFiles ==
  {File("data", TRUE, 2, "none", 0, TRUE, <<>>)}
    \cup {File("https:", TRUE, 0, "ok", 1, TRUE, segment) :
            segment \in {<<>>, <<"x">>, <<"x", "%", "2", "0">>}}

\* resolveFileInput has not been called
NotResolved == [err |-> Pending, bytes |-> 0, filename |-> <<>>, fetched |-> FALSE]

NoResolver ==
  /\ source = [file |-> File("invalid", TRUE, 0, "none", 0, TRUE, <<>>), filename |-> <<>>,
               maxBytes |-> 1]
  /\ resolved = NotResolved

\* The arguments createTelegramError is applied to.  status 0: no status;
\* description "": none; originalChatId <<>>: none
Statuses == {0, 200, 302, 400, 401, 403, 404, 409, 429, 500, 502, 503}

Descriptions ==
  {"", MsgChatNotFound, MsgBlocked, MsgBlockedUpper, MsgNotFoundBlocked, MsgCantInitiate,
   MsgTooMany, MsgUnexpected, MsgTimeout, MsgSocket, MsgStatus}

Operations == {"sendMessage", "sendDocument", "getChat", "getUpdates"}

Failures ==
  [status : Statuses, description : Descriptions, operation : Operations,
   originalChatId : {<<>>, Dest1, DestAlias}]

\* createTelegramError has not been called
NoClassifier ==
  /\ failure = [status |-> 0, description |-> "", operation |-> "getUpdates",
                originalChatId |-> <<>>]
  /\ classified = Pending

(***************************************************************************)
(* Error rendering (utils/errors.ts) and tool results (mcp/server.ts)      *)
(***************************************************************************)
\* What a provider call ends in: it returns, or it throws a value: an AppError,
\* another Error, or something that is no Error.  details: "undefined", "" (a
\* falsy value), "object" (a plain object) or "Error" (an Error instance)
CallReturned == [kind |-> "returned"]

AppError(statusCode, code, message, details) ==
  [kind |-> "AppError", statusCode |-> statusCode, code |-> code, message |-> message,
   details |-> details]

Error(message) == [kind |-> "Error", message |-> message]

NonError(type) == [kind |-> type]

truthy(details) == details \notin {"undefined", ""}

ErrorCodes ==
  {"INTERNAL_ERROR", "INVALID_JSON", "INVALID_REQUEST", "UNAUTHORIZED", "SESSION_NOT_FOUND",
   "TELEGRAM_CHAT_NOT_ALLOWED", "TELEGRAM_CHAT_NOT_FOUND", "TELEGRAM_FORBIDDEN",
   "TELEGRAM_BAD_REQUEST", "TELEGRAM_API_ERROR", "TELEGRAM_MESSAGE_NOT_DELIVERED",
   "TELEGRAM_DOCUMENT_TOO_LARGE", "FILE_INVALID_SOURCE", "FILE_DOWNLOAD_FAILED"}

normalizeErrorAlways500(error) ==
  IF error.kind = "Error" THEN AppError(500, "INTERNAL_ERROR", error.message, "undefined")
  ELSE AppError(500, "INTERNAL_ERROR", "Unknown error", "undefined")

normalizeError(error) ==
  IF error.kind = "AppError" THEN error
  ELSE IF error.kind = "Error" THEN AppError(500, "INTERNAL_ERROR", error.message, "undefined")
  ELSE AppError(500, "INTERNAL_ERROR", "Unknown error", "undefined")

\* AppError.toResponse(): the NormalizedError; details only when truthy
toResponse(error) ==
  LET base == [ok |-> FALSE, status |-> error.statusCode, code |-> error.code,
               message |-> error.message]
  IN  IF truthy(error.details) THEN base @@ [details |-> error.details] ELSE base

\* JSON.stringify(payload, null, 2) of an object: the text, given by the properties
\* it spells out.  An Error instance has no enumerable property of its own here
\* and is written as {}
JSONstringify(payload) ==
  [json |-> [k \in DOMAIN payload |->
               IF k = "details" /\ payload[k] = "Error" THEN "{}" ELSE payload[k]]]

toTextContent(payload) == [type |-> "text", text |-> JSONstringify(payload)]

successResult(payload) == [boundary |-> "tool", isError |-> FALSE,
                           content |-> toTextContent(payload)]

errorResult(error) == [boundary |-> "tool", isError |-> TRUE, content |-> toTextContent(error)]

\* The handler of a tool around its provider call: try { ... } catch (error)
toolHandler(result) ==
  IF result.kind = "returned" THEN successResult([ok |-> TRUE])
  ELSE errorResult(toResponse(normalizeError(result)))

\* The catch of POST /messages: res.status(normalized.status).json(normalized)
messagesCatch(error) ==
  [boundary |-> "http", status |-> toResponse(normalizeError(error)).status,
   body |-> toResponse(normalizeError(error))]

\* The values thrown
ErrorStatuses == {400, 401, 403, 404, 413, 429, 500, 502}

ErrorMessages == {"Unauthorized", "Telegram API request failed"}

AppErrors ==
  {AppError(statusCode, code, message, details) :
     statusCode \in ErrorStatuses, code \in ErrorCodes, message \in ErrorMessages,
     details \in {"undefined", "", "object", "Error"}}

ThrownValues ==
  AppErrors \cup {Error("socket hang up"), Error("")}
    \cup {NonError(type) : type \in {"string", "undefined", "null", "object"}}

\* Nothing was rendered
NotRendered == [boundary |-> "none"]

NoRenderer ==
  /\ outcome = CallReturned
  /\ rendered = NotRendered

(***************************************************************************)
(* Envelope normalizer (http/messages.ts)                                  *)
(***************************************************************************)
\* A JavaScript value: its type tag and its content as tokens
Val(t, v) == [t |-> t, v |-> v]

Undefined == Val("undefined", <<>>)

JNull == Val("null", <<>>)

JStr(s) == Val("string", <<s>>)

JNum(n) == Val("number", IntToStr(n))

JArr == Val("array", <<>>)

\* A function or object inherited from Object.prototype
JProto(name) == Val("function", <<name>>)

\* The object {}
EmptyObject == Val("object", <<>>)

\* The object {name: "system.health", arguments: {}}
CallParams == Val("object", <<"name", "system.health", "arguments">>)

\* An input of normalizeIncomingMessage.  kind: what `typeof`/Array.isArray see
\* ("object", "string", "null", "array", "number"); for a string, json is the
\* kind of the value its text encodes ("invalid" when it is not JSON) and the
\* fields are that value's; the fields of an object are its properties
\* (Undefined: absent).
Object(jsonrpc, id, method, params, tool, arguments) ==
  [kind |-> "object", json |-> "none", jsonrpc |-> jsonrpc, id |-> id, method |-> method,
   params |-> params, tool |-> tool, arguments |-> arguments]

NonObject(kind) ==
  [Object(Undefined, Undefined, Undefined, Undefined, Undefined, Undefined) EXCEPT !.kind = kind]

\* JSON.stringify(value)
Text(value) == [value EXCEPT !.kind = "string", !.json = value.kind]

\* A string that is not JSON ("not-json")
NotJson == [NonObject("string") EXCEPT !.json = "invalid"]

\* JSON.parse(input) of a string that is JSON
JSONparse(input) == [input EXCEPT !.kind = input.json, !.json = "none"]

\* z.union([z.string(), z.number()]).optional()
idSchema(id) == id.t \in {"undefined", "string", "number"}

\* z.string().min(1)
nonEmptyString(x) == x.t = "string" /\ x.v # <<"">>

\* JsonRpcMessageSchema.safeParse(candidate).success
JsonRpcMessageSchema(candidate) ==
  /\ candidate.kind = "object"
  /\ candidate.jsonrpc = JStr("2.0")
  /\ idSchema(candidate.id)
  /\ nonEmptyString(candidate.method)

LegacyMessageSchemaAnyObject(candidate) == candidate.kind = "object"

\* LegacyMessageSchema.safeParse(candidate).success
LegacyMessageSchema(candidate) ==
  /\ candidate.kind = "object"
  /\ idSchema(candidate.id)
  /\ nonEmptyString(candidate.tool)
  /\ candidate.arguments.t \in {"undefined", "object"}

\* Property names every object literal inherits from Object.prototype
ObjectPrototype == {"constructor", "toString", "valueOf", "hasOwnProperty", "__proto__"}

\* METHOD_ALIASES[method]: the own property, else the inherited one, else undefined
METHOD_ALIASES(method) ==
  IF method = "call_tool" THEN JStr("tools/call")
  ELSE IF method = "list_tools" THEN JStr("tools/list")
  ELSE IF method \in ObjectPrototype THEN JProto(method)
  ELSE Undefined

\* normalizeMethod: METHOD_ALIASES[method] ?? method
normalizeMethod(method) ==
  IF METHOD_ALIASES(method) \in {Undefined, JNull} THEN JStr(method) ELSE METHOD_ALIASES(method)

ensureArgumentsObjectAlwaysEmpty(value) == EmptyObject

\* ensureArgumentsObject
ensureArgumentsObject(value) ==
  IF value.t = "object" THEN value ELSE EmptyObject

\* The params {name: tool, arguments: args} of a legacy call
LegacyParams(tool, args) == Val("object", <<"name">> \o tool.v \o <<"arguments">> \o args.v)

\* What normalizeIncomingMessage does: it returns msg, or throws the AppError err
Returned(msg) == [err |-> Success, msg |-> msg]

Thrown(err) == [err |-> err, msg |-> NonObject("null")]

legacyIdWhenFalsy(id, uuid) ==
  IF id \in {Undefined, JNull, JStr(""), JNum(0)} THEN JStr(uuid) ELSE id

\* legacyParsed.data.id ?? randomUUID()
legacyId(id, uuid) == IF id \in {Undefined, JNull} THEN JStr(uuid) ELSE id

normalizeIncomingMessageLegacyFirst(input, allowLegacy, uuid) ==
  IF input.kind = "string" /\ input.json = "invalid"
    THEN Thrown(Failure(400, "INVALID_JSON"))
  ELSE LET candidate == IF input.kind = "string" THEN JSONparse(input) ELSE input
       IN  IF LegacyMessageSchema(candidate)
             THEN IF ~allowLegacy
                    THEN Thrown(Failure(400, "INVALID_REQUEST"))
                    ELSE Returned(Object(JStr("2.0"),
                                         legacyId(candidate.id, uuid),
                                         JStr("tools/call"),
                                         LegacyParams(candidate.tool,
                                                      ensureArgumentsObject(candidate.arguments)),
                                         Undefined, Undefined))
           ELSE IF JsonRpcMessageSchema(candidate)
             THEN Returned(Object(candidate.jsonrpc, candidate.id,
                                  normalizeMethod(candidate.method.v[1]), candidate.params,
                                  Undefined, Undefined))
           ELSE Thrown(Failure(400, "INVALID_JSON"))

\* normalizeIncomingMessage(input) with env.allowLegacyBody = allowLegacy and
\* randomUUID() giving uuid
normalizeIncomingMessage(input, allowLegacy, uuid) ==
  IF input.kind = "string" /\ input.json = "invalid"
    THEN Thrown(Failure(400, "INVALID_JSON"))
  ELSE LET candidate == IF input.kind = "string" THEN JSONparse(input) ELSE input
       IN  IF JsonRpcMessageSchema(candidate)
             THEN Returned(Object(candidate.jsonrpc, candidate.id,
                                  normalizeMethod(candidate.method.v[1]), candidate.params,
                                  Undefined, Undefined))
           ELSE IF LegacyMessageSchema(candidate)
             THEN IF ~allowLegacy
                    THEN Thrown(Failure(400, "INVALID_REQUEST"))
                    ELSE Returned(Object(JStr("2.0"),
                                         legacyId(candidate.id, uuid),
                                         JStr("tools/call"),
                                         LegacyParams(candidate.tool,
                                                      ensureArgumentsObject(candidate.arguments)),
                                         Undefined, Undefined))
           ELSE Thrown(Failure(400, "INVALID_JSON"))

(***************************************************************************)
(* Session registry and SSE transport (http/sse.ts)                        *)
(***************************************************************************)
\* An Authorization header: present or not, and its characters
Header(s) == [present |-> TRUE, s |-> s]

NoHeader == [present |-> FALSE, s |-> <<>>]

BearerPrefix == <<"B", "e", "a", "r", "e", "r", " ">>

\* The configured credential of the behaviours explored, and another one
Token == <<"s">>

OtherToken == <<"w">>

\* "Bearer s"
GoodHeader == Header(BearerPrefix \o Token)

\* No header, another credential, the credential without its scheme
BadHeaders == {NoHeader, Header(BearerPrefix \o OtherToken), Header(Token)}

Headers == BadHeaders \cup {GoodHeader}

\* String.prototype.startsWith
startsWith(s, prefix) == Len(s) >= Len(prefix) /\ SubSeq(s, 1, Len(prefix)) = prefix

\* String.prototype.trim
RECURSIVE trim(_)
trim(s) ==
  IF s = <<>> THEN s
  ELSE IF Head(s) = " " THEN trim(Tail(s))
  ELSE IF s[Len(s)] = " " THEN trim(SubSeq(s, 1, Len(s) - 1))
  ELSE s

authenticateAcceptsMissing(bearer, header) ==
  bearer = <<>> \/ ~header.present \/ trim(SubSeq(header.s, Len(BearerPrefix) + 1, Len(header.s))) = bearer

\* authenticate: TRUE when the request may proceed, FALSE when it was answered 401.
\* header.replace("Bearer ", "") removes the prefix startsWith has just found.
authenticate(bearer, header) ==
  IF bearer = <<>> THEN TRUE
  ELSE IF ~(header.present /\ startsWith(header.s, BearerPrefix)) THEN FALSE
  ELSE trim(SubSeq(header.s, Len(BearerPrefix) + 1, Len(header.s))) = bearer

\* An HTTP response: the request it answers, its status, the code of its JSON
\* error body ("" when it has none) and its text body
Response(req, status, code, body) == [req |-> req, status |-> status, code |-> code, body |-> body]

NoResponse == Response("none", 0, "", "")

\* A thrown value that is not an AppError
Exception == [kind |-> "exception", status |-> 0, code |-> ""]

toErrorResponseAlways500(error) == Failure(500, "INTERNAL_ERROR")

\* toErrorResponse: the status and code of the NormalizedError
toErrorResponse(error) ==
  IF error.kind = "error" THEN Failure(error.status, error.code)
  ELSE Failure(500, "INTERNAL_ERROR")

\* res.status(error.statusCode).json(error.toResponse())
ErrorResponse(req, err) == Response(req, err.status, err.code, "")

\* Events written on a channel.  An endpoint event carries the path
\* /messages?sessionId=<sessionId>; a message event carries the id of the request
\* it answers (origin, for observation: the session that request was routed to).
EndpointEvent(sessionId) ==
  [type |-> "endpoint", sessionId |-> sessionId, id |-> Undefined, origin |-> 0]

MessageEvent(id, origin) == [type |-> "message", sessionId |-> 0, id |-> id, origin |-> origin]

\* The session identifiers: transport.sessionId is a randomUUID(), modelled as
\* the rank of the channel among the channels opened so far
SessionIds == 1..MaxSessions

\* sessions.set(id, session)
sessionsSet(reg, id, session) ==
  [i \in DOMAIN reg \cup {id} |-> IF i = id THEN session ELSE reg[i]]

sessionsDeleteOldest(reg, id) ==
  IF DOMAIN reg = {} THEN reg
  ELSE [i \in DOMAIN reg \ {CHOOSE m \in DOMAIN reg : \A j \in DOMAIN reg : m <= j} |-> reg[i]]

\* sessions.delete(id)
sessionsDelete(reg, id) == [i \in DOMAIN reg \ {id} |-> reg[i]]

\* The sessionId a client puts in the query of GET /sse (0: none)
Hints == {0, 1}

\* The bodies POSTed to /messages, as express.json() hands them over
CanonicalCall(id) == Object(JStr("2.0"), id, JStr("tools/call"), CallParams, Undefined, Undefined)

Notification ==
  Object(JStr("2.0"), Undefined, JStr("notifications/initialized"), Undefined, Undefined, Undefined)

LegacyCall == Object(Undefined, JNum(1), Undefined, Undefined, JStr("system.health"), EmptyObject)

EmptyBody == Object(Undefined, Undefined, Undefined, Undefined, Undefined, Undefined)

InheritedMethodCall ==
  Object(JStr("2.0"), JStr("1"), JStr("toString"), Undefined, Undefined, Undefined)

Bodies == {CanonicalCall(JStr("1")), Notification, LegacyCall, EmptyBody, InheritedMethodCall}

\* The POST /messages requests explored: every header with a well-formed and a
\* malformed body, and under the right header every body, the legacy one also
\* with legacy bodies disabled (sessionId 0: the request names no session)
PostRequest(header, sessionId, body, allowLegacyBody) ==
  [header |-> header, sessionId |-> sessionId, body |-> body, allowLegacyBody |-> allowLegacyBody]

PostRequests ==
  {PostRequest(h, i, b, TRUE) : h \in BadHeaders, i \in 0..MaxSessions,
                                b \in {CanonicalCall(JStr("1")), EmptyBody}}
    \cup {PostRequest(GoodHeader, i, b, TRUE) : i \in 0..MaxSessions, b \in Bodies}
    \cup {PostRequest(GoodHeader, i, LegacyCall, FALSE) : i \in 0..MaxSessions}

\* The POST /messages requests of SpecSessions: authenticated, for every session
\* identifier, with a request, a notification and a malformed body
SessionPosts ==
  {PostRequest(GoodHeader, i, b, TRUE) : i \in SessionIds,
                                         b \in {CanonicalCall(JStr("1")), Notification, EmptyBody}}

\* The GET /sse requests explored: header, sessionId hint, and whether
\* server.connect will resolve
GetRequest(header, hint, connects) == [header |-> header, hint |-> hint, connects |-> connects]

GetRequests ==
  {GetRequest(h, hint, TRUE) : h \in BadHeaders, hint \in Hints}
    \cup {GetRequest(GoodHeader, hint, c) : hint \in Hints, c \in BOOLEAN}

\* The GET /sse requests of SpecSessions
SessionGets == {GetRequest(GoodHeader, hint, c) : hint \in Hints, c \in BOOLEAN}

\* The id generated for a legacy body without one
GeneratedId == "uuid"

\* The arguments normalizeIncomingMessage is applied to: objects with and without
\* the members of each dialect, the same as JSON text, text that is not JSON, and
\* values that are not objects
Methods ==
  {JStr("tools/call"), JStr("call_tool"), JStr("list_tools"), JStr("ping"),
   JStr("toString"), JStr("__proto__"), JStr(""), JNum(1), Undefined}

Ids == {Undefined, JStr("1"), JStr(""), JNum(7), JNum(0), JNull}

Params == {Undefined, CallParams, EmptyObject, JArr}

CanonicalInputs ==
  {Object(JStr("2.0"), id, method, params, Undefined, Undefined) :
     id \in Ids, method \in Methods, params \in Params}

\* The object {text: "hi"}
TextArguments == Val("object", <<"text", "hi">>)

Arguments == {Undefined, EmptyObject, TextArguments, JStr("x"), JNum(1), JArr, JNull}

Tools == {JStr("system.health"), JStr("")}

LegacyInputs ==
  {Object(Undefined, id, Undefined, Undefined, tool, arguments) :
     id \in Ids, tool \in Tools, arguments \in Arguments}

\* Objects with the members of both dialects
BothDialects ==
  {Object(JStr("2.0"), id, method, params, JStr("system.health"), arguments) :
     id \in {Undefined, JStr("1")},
     method \in {JStr("ping"), JStr("call_tool"), JStr("toString")},
     params \in {Undefined, CallParams},
     arguments \in {Undefined, EmptyObject, JStr("x")}}

ObjectInputs == CanonicalInputs \cup LegacyInputs \cup Bodies \cup BothDialects

NormalizerInputs ==
  ObjectInputs \cup {Text(o) : o \in ObjectInputs}
    \cup {NotJson, NonObject("null"), NonObject("array"), NonObject("number"),
          NonObject("undefined"), Text(NonObject("number")), Text(NonObject("null"))}

\* normalizeIncomingMessage has not been called
NotCalled == [err |-> Pending, msg |-> NonObject("null")]

NoNormalizer ==
  /\ raw = [input |-> NonObject("null"), allowLegacyBody |-> FALSE]
  /\ normalized = NotCalled

\* No HTTP request has been served (the specifications of the limiter and of the
\* service leave the transport out)
NoSessions ==
  /\ authBearer = <<>>
  /\ sessions = <<>>
  /\ timers = {}
  /\ channel = <<>>
  /\ serverTransport = 0
  /\ now = 0
  /\ inflight = {}
  /\ forwarded = 0
  /\ response = NoResponse

(***************************************************************************)
(* One service call                                                        *)
(***************************************************************************)
\* The calls of the behaviour under study
Calls == DOMAIN call

\* pc: "idle", "waiting" (suspended in acquire), "http" (request in flight),
\*     "backoff" (retry timer running), "file" (resolveFileInput running), "done"
\* op: the service method; req: meta.operation of the makeRequest in progress
\* dest: the chat_id passed in; chatId: the identifier after resolveChatId
\* attempt: makeRequest's attempt parameter; hist: the replies of this makeRequest's
\* HTTP attempts; delays: its backoff waits; grants: the tokens it was granted
\* ticket: its ticket in the limiter's queue while it waits there (0 otherwise)
\* outcome: how this makeRequest ended: "none" (not yet), "returned", "threw"
\* sent: the chat_id carried by the request; checked: the argument of the last
\* ensureChatAccess; result: what the service call returned or threw
IdleCall ==
  [pc |-> "idle", op |-> "none", req |-> "none", dest |-> <<>>, chatId |-> NoChat,
   attempt |-> 0, hist |-> <<>>, delays |-> <<>>, ticket |-> 0, grants |-> 0,
   outcome |-> "none", sent |-> NoChat, checked |-> NoChat, result |-> Pending]

\* What hist keeps of a reply
Seen(r) == [http |-> r.http, ok |-> resolves(r) /\ ~bodyFailed(r)]

(***************************************************************************)
(* SpecLimiter: the limiter alone                                          *)
(***************************************************************************)
InitLimiter ==
  /\ limit \in 1..MaxLimit
  /\ tokens = limit
  /\ queue = <<>>
  /\ nextTicket = 0
  /\ granted = <<>>
  /\ sinceTick = 0
  /\ maxRetries = 0
  /\ allowedChatIds = {}
  /\ call = [c \in {} |-> IdleCall]
  /\ NoSessions
  /\ NoNormalizer
  /\ NoClassifier
  /\ NoResolver
  /\ NoRenderer
  /\ NoWaits

\* One acquire() call; a caller that is suspended is noted with its position in
\* the queue
LimAcquire ==
  /\ nextTicket < MaxTickets
  /\ acquire
  /\ waits' = IF hasToken(tokens)
                THEN waits
                ELSE waits @@ ((nextTicket + 1) :> [pos |-> Len(queue) + 1, ticks |-> 0])
  /\ UNCHANGED <<configVars, call, sessionVars, functionVars>>

\* One refill tick; every caller in the queue has seen one more tick
LimRefill ==
  /\ refillTick
  /\ waits' = [t \in DOMAIN waits |->
                 IF t \in SeqRange(queue) THEN [waits[t] EXCEPT !.ticks = @ + 1] ELSE waits[t]]
  /\ UNCHANGED <<configVars, call, sessionVars, functionVars>>

NextLimiter == LimAcquire \/ LimRefill

SpecLimiter == InitLimiter /\ [][NextLimiter]_vars

\* The setInterval of the constructor keeps firing: refill() runs again and again
SpecLimiterFair == SpecLimiter /\ WF_vars(LimRefill)

(***************************************************************************)
(* Spec: TelegramService over the limiter                                  *)
(***************************************************************************)
Init ==
  /\ limit \in 1..MaxLimit
  /\ tokens = limit
  /\ queue = <<>>
  /\ nextTicket = 0
  /\ granted = <<>>
  /\ sinceTick = 0
  /\ maxRetries \in 0..maxRetriesDefault
  /\ allowedChatIds \in AllowLists
  /\ call = [c \in {1} |-> IdleCall]
  /\ NoSessions
  /\ NoNormalizer
  /\ NoClassifier
  /\ NoResolver
  /\ NoRenderer
  /\ NoWaits

\* makeRequest up to its first suspension: `await this.rateLimiter.acquire()`.
\* rec is the call's record on entry; the call goes on to the HTTP request when the
\* token is granted at once and waits in the queue otherwise.
makeRequest(c, rec) ==
  /\ acquire
  /\ call' = [call EXCEPT ![c] =
       [rec EXCEPT !.ticket = IF hasToken(tokens) THEN 0 ELSE nextTicket + 1,
                   !.pc = IF hasToken(tokens) THEN "http" ELSE "waiting",
                   !.grants = IF hasToken(tokens) THEN @ + 1 ELSE @]]

\* A first makeRequest call (attempt = 0) for operation req
firstRequest(rec, req) ==
  [rec EXCEPT !.req = req, !.attempt = 0, !.hist = <<>>, !.delays = <<>>, !.grants = 0,
              !.outcome = "none"]

\* The service call ends: it returns (Success) or throws (a Failure)
finish(c, rec, res) ==
  /\ call' = [call EXCEPT ![c] = [rec EXCEPT !.pc = "done", !.result = res]]
  /\ UNCHANGED limiterVars

\* sendMessage after resolveChatId returned chatId: ensureChatAccess, then the request
sendMessageResolved(c, rec, chatId) ==
  IF ensureChatAccess(allowedChatIds, chatId)
    THEN makeRequest(c, firstRequest([rec EXCEPT !.chatId = chatId, !.checked = chatId,
                                                 !.sent = chatId], "sendMessage"))
    ELSE finish(c, [rec EXCEPT !.chatId = chatId, !.checked = chatId], NotAllowed)

sendDocumentResolvedFileFirst(c, rec, chatId) ==
  /\ call' = [call EXCEPT ![c] = [rec EXCEPT !.chatId = chatId, !.checked = chatId,
                                             !.pc = "file"]]
  /\ UNCHANGED limiterVars

\* sendDocument after resolveChatId returned chatId: ensureChatAccess, then resolveFileInput
sendDocumentResolved(c, rec, chatId) ==
  IF ensureChatAccess(allowedChatIds, chatId)
    THEN /\ call' = [call EXCEPT ![c] = [rec EXCEPT !.chatId = chatId, !.checked = chatId,
                                                    !.pc = "file"]]
         /\ UNCHANGED limiterVars
    ELSE finish(c, [rec EXCEPT !.chatId = chatId, !.checked = chatId], NotAllowed)

\* sendMessage(payload) with payload.chat_id = d, up to its first suspension
sendMessage(c, d) ==
  /\ call[c].pc = "idle"
  /\ LET rec == [call[c] EXCEPT !.op = "sendMessage", !.dest = d]
     IN  IF startsWithAt(d)
           THEN makeRequest(c, firstRequest(rec, "getChat"))
           ELSE sendMessageResolved(c, rec, Str(d))
  /\ UNCHANGED <<configVars, sessionVars, functionVars, waits>>

\* sendDocument(payload) with payload.chat_id = d, up to its first suspension
sendDocument(c, d) ==
  /\ call[c].pc = "idle"
  /\ LET rec == [call[c] EXCEPT !.op = "sendDocument", !.dest = d]
     IN  IF startsWithAt(d)
           THEN makeRequest(c, firstRequest(rec, "getChat"))
           ELSE sendDocumentResolved(c, rec, Str(d))
  /\ UNCHANGED <<configVars, sessionVars, functionVars, waits>>

\* getChat(chatIdOrUsername), called from outside the service
getChat(c, d) ==
  /\ call[c].pc = "idle"
  /\ makeRequest(c, firstRequest([call[c] EXCEPT !.op = "getChat", !.dest = d], "getChat"))
  /\ UNCHANGED <<configVars, sessionVars, functionVars, waits>>

\* getUpdates(payload)
getUpdates(c) ==
  /\ call[c].pc = "idle"
  /\ makeRequest(c, firstRequest([call[c] EXCEPT !.op = "getUpdates"], "getUpdates"))
  /\ UNCHANGED <<configVars, sessionVars, functionVars, waits>>

\* The refill timer fires: the released waiters go on to their HTTP request
Refill ==
  /\ refillTick
  /\ call' = [c \in Calls |->
       IF call[c].pc = "waiting" /\ call[c].ticket \in SeqRange(refill.released)
         THEN [call[c] EXCEPT !.pc = "http", !.ticket = 0, !.grants = @ + 1]
         ELSE call[c]]
  /\ UNCHANGED <<configVars, sessionVars, functionVars, waits>>

\* makeRequest returned the provider's result to the service method
returned(c, rec, id) ==
  IF rec.req = "getChat"
    THEN \* getChat: ensureChatAccess(response.id)
         IF ~ensureChatAccess(allowedChatIds, Num(id))
           THEN finish(c, [rec EXCEPT !.checked = Num(id)], NotAllowed)
         ELSE IF rec.op = "sendMessage" THEN sendMessageResolved(c, rec, Num(id))
         ELSE IF rec.op = "sendDocument" THEN sendDocumentResolved(c, rec, Num(id))
         ELSE finish(c, [rec EXCEPT !.checked = Num(id), !.chatId = Num(id)], Success)
    ELSE finish(c, rec, Success)

\* The HTTP attempt of call c ends with reply r (id: the chat id a getChat result carries)
HttpRespond(c, r, id) ==
  /\ call[c].pc = "http"
  /\ LET rec == [call[c] EXCEPT !.hist = Append(@, Seen(r))]
         error == thrown(r)
     IN  IF resolves(r) /\ ~bodyFailed(r)
           THEN returned(c, [rec EXCEPT !.outcome = "returned"], id)
         ELSE IF shouldRetry(error) /\ attemptsRemain(rec.attempt, maxRetries)
           THEN /\ call' = [call EXCEPT ![c] =
                     [rec EXCEPT !.pc = "backoff", !.delays = Append(@, delayMs(rec.attempt))]]
                /\ UNCHANGED limiterVars
         ELSE finish(c, [rec EXCEPT !.outcome = "threw"],
                     createTelegramError(statusOf(error), descriptionOf(error), rec.req, rec.dest))
  /\ UNCHANGED <<configVars, sessionVars, functionVars, waits>>

BackoffDoneSkipsLimiter(c) ==
  /\ call[c].pc = "backoff"
  /\ call' = [call EXCEPT ![c] = [call[c] EXCEPT !.attempt = @ + 1, !.pc = "http"]]
  /\ UNCHANGED limiterVars
  /\ UNCHANGED <<configVars, sessionVars, functionVars, waits>>

\* The backoff timer fires: makeRequest(config, context, log, meta, attempt + 1)
BackoffDone(c) ==
  /\ call[c].pc = "backoff"
  /\ makeRequest(c, [call[c] EXCEPT !.attempt = @ + 1])
  /\ UNCHANGED <<configVars, sessionVars, functionVars, waits>>

\* resolveFileInput settles with f
FileResolved(c, f) ==
  /\ call[c].pc = "file"
  /\ IF f = Success
       THEN makeRequest(c, firstRequest([call[c] EXCEPT !.sent = call[c].chatId], "sendDocument"))
       ELSE finish(c, call[c], f)
  /\ UNCHANGED <<configVars, sessionVars, functionVars, waits>>

Next ==
  \/ Refill
  \/ \E c \in Calls, d \in Dests : sendMessage(c, d)
  \/ \E c \in Calls, d \in Dests : sendDocument(c, d)
  \/ \E c \in Calls, d \in Dests : getChat(c, d)
  \/ \E c \in Calls : getUpdates(c)
  \/ \E c \in Calls, r \in Replies, id \in ChatIds : HttpRespond(c, r, id)
  \/ \E c \in Calls : BackoffDone(c)
  \/ \E c \in Calls, f \in FileOutcomes : FileResolved(c, f)

Spec == Init /\ [][Next]_vars

(***************************************************************************)
(* SpecConcurrent: NumCalls getUpdates calls competing for the limiter     *)
(***************************************************************************)
\* The replies of a provider that answers, fails with a 4xx or a 5xx, or times out
RepliesConcurrent == {ReplyOk, Reply400, Reply500, ReplyTimeout}

InitConcurrent ==
  /\ limit \in 1..MaxLimit
  /\ tokens = limit
  /\ queue = <<>>
  /\ nextTicket = 0
  /\ granted = <<>>
  /\ sinceTick = 0
  /\ maxRetries \in 0..maxRetriesDefault
  /\ allowedChatIds = {}
  /\ call = [c \in 1..NumCalls |-> IdleCall]
  /\ NoSessions
  /\ NoNormalizer
  /\ NoClassifier
  /\ NoResolver
  /\ NoRenderer
  /\ NoWaits

NextConcurrent ==
  \/ Refill
  \/ \E c \in Calls : getUpdates(c)
  \/ \E c \in Calls, r \in RepliesConcurrent, id \in ChatIds : HttpRespond(c, r, id)
  \/ \E c \in Calls : BackoffDone(c)

SpecConcurrent == InitConcurrent /\ [][NextConcurrent]_vars

\* The channel of a GET /sse request whose query carries the sessionId hint (0:
\* none).  state: "open", "ended" (res.end() called), "closed" ('close' emitted);
\* connect: `await server.connect(transport)` is "pending" (it will resolve),
\* "rejecting" (it will reject), "connected" or "failed"; events: the endpoint
\* and message events written on the channel; pings: the keepalive events
\* written; failures: the keepalive writes that threw
NewChannel(hint, connects, id) ==
  [state |-> "open", connect |-> IF connects THEN "pending" ELSE "rejecting",
   events |-> IF connects THEN <<EndpointEvent(id)>> ELSE <<>>, pings |-> 0, failures |-> 0]

\* The keepalive writes attempted on the channels cs
RECURSIVE TotalPings(_)
TotalPings(cs) ==
  IF cs = {} THEN 0
  ELSE LET c == CHOOSE x \in cs : TRUE
       IN  channel[c].pings + channel[c].failures + TotalPings(cs \ {c})

\* The transport of channel id has started: start() wrote the endpoint event, set
\* onmessage and its own 'close' listener
started(id) == channel[id].connect \in {"pending", "connected"}

(***************************************************************************)
(* SpecSessions: the HTTP handlers of registerSseTransport over one shared *)
(* McpServer.  The server (the SDK's Protocol) keeps one transport: connect *)
(* replaces it, the transport's close clears it, and a request's response  *)
(* is sent on the server's transport.                                      *)
(***************************************************************************)
InitSessions ==
  /\ limit = 1
  /\ tokens = 1
  /\ queue = <<>>
  /\ nextTicket = 0
  /\ granted = <<>>
  /\ sinceTick = 0
  /\ maxRetries = 0
  /\ allowedChatIds = {}
  /\ call = [c \in {} |-> IdleCall]
  /\ NoSessions
  /\ NoNormalizer
  /\ NoClassifier
  /\ NoResolver
  /\ NoRenderer
  /\ NoWaits

\* Date.now() advances
Tick ==
  /\ now < MaxNow
  /\ now' = now + 1
  /\ UNCHANGED <<authBearer, sessions, timers, channel, serverTransport,
                 inflight, forwarded, response>>
  /\ UNCHANGED <<limiterVars, configVars, call, functionVars, waits>>

\* GET /sse up to `await server.connect(transport)`; connect's synchronous part
\* (the server takes the transport, start() writes the endpoint event) is included
GetSse(header, hint, connects) ==
  /\ IF ~authenticate(authBearer, header)
       THEN /\ response' = ErrorResponse("GET /sse", Failure(401, "UNAUTHORIZED"))
            /\ UNCHANGED <<sessions, timers, channel, serverTransport>>
       ELSE /\ Len(channel) < MaxSessions
            /\ LET id == Len(channel) + 1
               IN  /\ sessions' = sessionsSet(sessions, id,
                                     [createdAt |-> now, lastSeenAt |-> now])
                   /\ timers' = timers \cup {id}
                   /\ channel' = Append(channel, NewChannel(hint, connects, id))
                   /\ serverTransport' = IF connects THEN id ELSE serverTransport
                   /\ response' = IF connects THEN Response("GET /sse", 200, "", "") ELSE response
  /\ UNCHANGED <<authBearer, now, inflight, forwarded>>
  /\ UNCHANGED <<limiterVars, configVars, call, functionVars, waits>>

ConnectSettledLeavesTimer(id) ==
  /\ id \in DOMAIN channel
  /\ channel[id].connect \in {"pending", "rejecting"}
  /\ IF channel[id].connect = "pending"
       THEN /\ channel' = [channel EXCEPT ![id].connect = "connected"]
            /\ UNCHANGED <<sessions, timers, response>>
       ELSE /\ UNCHANGED timers
            /\ sessions' = sessionsDelete(sessions, id)
            /\ channel' = [channel EXCEPT ![id].connect = "failed",
                                          ![id].state = IF @ = "open" THEN "ended" ELSE @]
            /\ response' = Response("GET /sse", 200, "", "")
  /\ UNCHANGED <<authBearer, now, serverTransport, inflight, forwarded>>
  /\ UNCHANGED <<limiterVars, configVars, call, functionVars, waits>>

\* `await server.connect(transport)` settles: the handler ends, or its catch runs
\* clearInterval(keepAlive); sessions.delete(transport.sessionId); res.end()
ConnectSettled(id) ==
  /\ id \in DOMAIN channel
  /\ channel[id].connect \in {"pending", "rejecting"}
  /\ IF channel[id].connect = "pending"
       THEN /\ channel' = [channel EXCEPT ![id].connect = "connected"]
            /\ UNCHANGED <<sessions, timers, response>>
       ELSE /\ timers' = timers \ {id}
            /\ sessions' = sessionsDelete(sessions, id)
            /\ channel' = [channel EXCEPT ![id].connect = "failed",
                                          ![id].state = IF @ = "open" THEN "ended" ELSE @]
            /\ response' = Response("GET /sse", 200, "", "")
  /\ UNCHANGED <<authBearer, now, serverTransport, inflight, forwarded>>
  /\ UNCHANGED <<limiterVars, configVars, call, functionVars, waits>>

ChannelCloseStopsEveryTimer(id) ==
  /\ id \in DOMAIN channel
  /\ channel[id].state \in {"open", "ended"}
  /\ timers' = {}
  /\ sessions' = sessionsDelete(sessions, id)
  /\ channel' = [channel EXCEPT ![id].state = "closed"]
  /\ serverTransport' = IF started(id) THEN 0 ELSE serverTransport
  /\ UNCHANGED <<authBearer, now, inflight, forwarded, response>>
  /\ UNCHANGED <<limiterVars, configVars, call, functionVars, waits>>

\* The channel emits 'close' (the client went away, or res.end() completed):
\* clearInterval(keepAlive); sessions.delete(transport.sessionId); a started
\* transport's own listener then closes the server's side of the connection
ChannelClose(id) ==
  /\ id \in DOMAIN channel
  /\ channel[id].state \in {"open", "ended"}
  /\ timers' = timers \ {id}
  /\ sessions' = sessionsDelete(sessions, id)
  /\ channel' = [channel EXCEPT ![id].state = "closed"]
  /\ serverTransport' = IF started(id) THEN 0 ELSE serverTransport
  /\ UNCHANGED <<authBearer, now, inflight, forwarded, response>>
  /\ UNCHANGED <<limiterVars, configVars, call, functionVars, waits>>

KeepAliveClosesOnFailure(id, written) ==
  /\ id \in timers
  /\ TotalPings(DOMAIN channel) < MaxPings
  /\ IF written
       THEN /\ channel' = [channel EXCEPT ![id].pings = @ + 1]
            /\ UNCHANGED <<sessions, timers>>
       ELSE /\ channel' = [channel EXCEPT ![id].failures = @ + 1]
            /\ timers' = timers \ {id}
            /\ sessions' = sessionsDelete(sessions, id)
  /\ UNCHANGED <<authBearer, serverTransport, now, inflight, forwarded, response>>
  /\ UNCHANGED <<limiterVars, configVars, call, functionVars, waits>>

\* The keepalive interval of session id fires: res.write of a ping; a throw is
\* caught and logged (failures: the writes that threw)
KeepAlive(id, written) ==
  /\ id \in timers
  /\ TotalPings(DOMAIN channel) < MaxPings
  /\ IF written
       THEN channel' = [channel EXCEPT ![id].pings = @ + 1]
       ELSE channel' = [channel EXCEPT ![id].failures = @ + 1]
  /\ UNCHANGED <<authBearer, sessions, timers, serverTransport, now, inflight,
                 forwarded, response>>
  /\ UNCHANGED <<limiterVars, configVars, call, functionVars, waits>>

\* SSEServerTransport.handleMessage accepts a JSON-RPC message (its method a
\* string, its params an object when present) and throws on anything else
handleMessageAccepts(msg) ==
  /\ msg.method.t = "string"
  /\ msg.params.t \in {"undefined", "object"}

\* The catch of POST /messages: toErrorResponse(error), logged and sent
routeFailed(sessionId, error) ==
  /\ response' = ErrorResponse("POST /messages", toErrorResponse(error))
  /\ UNCHANGED <<inflight, forwarded>>

routeKeepsLastSeen(sessionId, body, allowLegacyBody) ==
  LET n == normalizeIncomingMessage(body, allowLegacyBody, GeneratedId)
  IN  IF n.err # Success
        THEN /\ routeFailed(sessionId, n.err)
             /\ UNCHANGED sessions
      ELSE IF ~handleMessageAccepts(n.msg)
        THEN /\ UNCHANGED sessions
             /\ routeFailed(sessionId, Exception)
      ELSE /\ forwarded < MaxRequests
           /\ UNCHANGED sessions
           /\ forwarded' = forwarded + 1
           /\ inflight' =
                IF started(sessionId)
                  THEN inflight \cup {[n |-> forwarded + 1, session |-> sessionId,
                                       msg |-> n.msg, via |-> serverTransport]}
                  ELSE inflight
           /\ response' = Response("POST /messages", 202, "", "Accepted")

\* The try block of POST /messages for the session found under sessionId.  The
\* envelope handed to a started transport reaches the server, whose handler stays
\* in flight; n: its rank among the envelopes forwarded, via: the transport the
\* server holds at that time.
route(sessionId, body, allowLegacyBody) ==
  LET n == normalizeIncomingMessage(body, allowLegacyBody, GeneratedId)
  IN  IF n.err # Success
        THEN /\ routeFailed(sessionId, n.err)
             /\ UNCHANGED sessions
      ELSE IF ~handleMessageAccepts(n.msg)
        THEN /\ sessions' = [sessions EXCEPT ![sessionId].lastSeenAt = now]
             /\ routeFailed(sessionId, Exception)
      ELSE /\ forwarded < MaxRequests
           /\ sessions' = [sessions EXCEPT ![sessionId].lastSeenAt = now]
           /\ forwarded' = forwarded + 1
           /\ inflight' =
                IF started(sessionId)
                  THEN inflight \cup {[n |-> forwarded + 1, session |-> sessionId,
                                       msg |-> n.msg, via |-> serverTransport]}
                  ELSE inflight
           /\ response' = Response("POST /messages", 202, "", "Accepted")

PostMessagesNormalizesFirst(header, sessionId, body, allowLegacyBody) ==
  /\ IF ~authenticate(authBearer, header)
       THEN /\ response' = ErrorResponse("POST /messages", Failure(401, "UNAUTHORIZED"))
            /\ UNCHANGED <<sessions, inflight, forwarded>>
     ELSE IF sessionId = 0
       THEN /\ response' = ErrorResponse("POST /messages", Failure(400, "INVALID_REQUEST"))
            /\ UNCHANGED <<sessions, inflight, forwarded>>
     ELSE IF normalizeIncomingMessage(body, allowLegacyBody, GeneratedId).err # Success
       THEN /\ response' = ErrorResponse("POST /messages",
                              normalizeIncomingMessage(body, allowLegacyBody, GeneratedId).err)
            /\ UNCHANGED <<sessions, inflight, forwarded>>
     ELSE IF sessionId \notin DOMAIN sessions
       THEN /\ response' = ErrorResponse("POST /messages", Failure(404, "SESSION_NOT_FOUND"))
            /\ UNCHANGED <<sessions, inflight, forwarded>>
     ELSE route(sessionId, body, allowLegacyBody)
  /\ UNCHANGED <<authBearer, timers, channel, serverTransport, now>>
  /\ UNCHANGED <<limiterVars, configVars, call, functionVars, waits>>

\* POST /messages?sessionId=... (sessionId 0: neither the query nor the header
\* names one) while env.allowLegacyBody is allowLegacyBody
PostMessages(header, sessionId, body, allowLegacyBody) ==
  /\ IF ~authenticate(authBearer, header)
       THEN /\ response' = ErrorResponse("POST /messages", Failure(401, "UNAUTHORIZED"))
            /\ UNCHANGED <<sessions, inflight, forwarded>>
     ELSE IF sessionId = 0
       THEN /\ response' = ErrorResponse("POST /messages", Failure(400, "INVALID_REQUEST"))
            /\ UNCHANGED <<sessions, inflight, forwarded>>
     ELSE IF sessionId \notin DOMAIN sessions
       THEN /\ response' = ErrorResponse("POST /messages", Failure(404, "SESSION_NOT_FOUND"))
            /\ UNCHANGED <<sessions, inflight, forwarded>>
     ELSE route(sessionId, body, allowLegacyBody)
  /\ UNCHANGED <<authBearer, timers, channel, serverTransport, now>>
  /\ UNCHANGED <<limiterVars, configVars, call, functionVars, waits>>

\* The handler of an envelope in flight ends.  The server answers a request (an
\* envelope with an id): transport.send writes a message event when the
\* transport's channel is open and drops the response otherwise.  target: the
\* transport the server held when the request arrived, or the one it holds now.
HandlerDone(item, target) ==
  /\ item \in inflight
  /\ target \in {item.via, serverTransport}
  /\ inflight' = inflight \ {item}
  /\ channel' =
       IF item.msg.id # Undefined /\ target # 0 /\ channel[target].state = "open" /\ started(target)
         THEN [channel EXCEPT ![target].events = Append(@, MessageEvent(item.msg.id, item.session))]
         ELSE channel
  /\ UNCHANGED <<authBearer, sessions, timers, serverTransport, now,
                 forwarded, response>>
  /\ UNCHANGED <<limiterVars, configVars, call, functionVars, waits>>

NextSessions ==
  \/ Tick
  \/ \E r \in SessionGets : GetSse(r.header, r.hint, r.connects)
  \/ \E id \in SessionIds : ConnectSettled(id)
  \/ \E id \in SessionIds : ChannelClose(id)
  \/ \E id \in SessionIds, written \in BOOLEAN : KeepAlive(id, written)
  \/ \E r \in SessionPosts : PostMessages(r.header, r.sessionId, r.body, r.allowLegacyBody)
  \/ \E item \in inflight, target \in 0..MaxSessions : HandlerDone(item, target)

SpecSessions == InitSessions /\ [][NextSessions]_vars

(***************************************************************************)
(* SpecRoute: the two HTTP handlers under every request explored, with and *)
(* without a configured credential; the handlers in flight stay in flight. *)
(***************************************************************************)
InitRoute ==
  /\ limit = 1
  /\ tokens = 1
  /\ queue = <<>>
  /\ nextTicket = 0
  /\ granted = <<>>
  /\ sinceTick = 0
  /\ maxRetries = 0
  /\ allowedChatIds = {}
  /\ call = [c \in {} |-> IdleCall]
  /\ authBearer \in {<<>>, Token}
  /\ sessions = <<>>
  /\ timers = {}
  /\ channel = <<>>
  /\ serverTransport = 0
  /\ now = 0
  /\ inflight = {}
  /\ forwarded = 0
  /\ response = NoResponse
  /\ NoNormalizer
  /\ NoClassifier
  /\ NoResolver
  /\ NoRenderer
  /\ NoWaits

NextRoute ==
  \/ Tick
  \/ \E r \in GetRequests : GetSse(r.header, r.hint, r.connects)
  \/ \E id \in SessionIds : ConnectSettled(id)
  \/ \E id \in SessionIds : ChannelClose(id)
  \/ \E r \in PostRequests : PostMessages(r.header, r.sessionId, r.body, r.allowLegacyBody)

SpecRoute == InitRoute /\ [][NextRoute]_vars

(***************************************************************************)
(* SpecNormalize: normalizeIncomingMessage applied once to each input, with *)
(* legacy bodies enabled and disabled.                                      *)
(***************************************************************************)
InitNormalize ==
  /\ limit = 1
  /\ tokens = 1
  /\ queue = <<>>
  /\ nextTicket = 0
  /\ granted = <<>>
  /\ sinceTick = 0
  /\ maxRetries = 0
  /\ allowedChatIds = {}
  /\ call = [c \in {} |-> IdleCall]
  /\ NoSessions
  /\ NoClassifier
  /\ NoResolver
  /\ NoRenderer
  /\ NoWaits
  /\ raw \in [input : NormalizerInputs, allowLegacyBody : BOOLEAN]
  /\ normalized = NotCalled

\* normalizeIncomingMessage(raw.input) returns or throws
Normalize ==
  /\ normalized = NotCalled
  /\ normalized' = normalizeIncomingMessage(raw.input, raw.allowLegacyBody, GeneratedId)
  /\ UNCHANGED <<raw, limiterVars, configVars, call, sessionVars, classifierVars, resolverVars,
                 rendererVars, waits>>

NextNormalize == Normalize

SpecNormalize == InitNormalize /\ [][NextNormalize]_vars

(***************************************************************************)
(* SpecClassify: createTelegramError applied once to each combination of   *)
(* status, description, operation and original destination.                *)
(***************************************************************************)
InitClassify ==
  /\ limit = 1
  /\ tokens = 1
  /\ queue = <<>>
  /\ nextTicket = 0
  /\ granted = <<>>
  /\ sinceTick = 0
  /\ maxRetries = 0
  /\ allowedChatIds = {}
  /\ call = [c \in {} |-> IdleCall]
  /\ NoSessions
  /\ NoNormalizer
  /\ NoResolver
  /\ NoRenderer
  /\ NoWaits
  /\ failure \in Failures
  /\ classified = Pending

\* createTelegramError(status, description, meta, error) returns
Classify ==
  /\ classified = Pending
  /\ classified' = createTelegramError(failure.status, failure.description,
                                       failure.operation, failure.originalChatId)
  /\ UNCHANGED <<failure, limiterVars, configVars, call, sessionVars, normalizerVars,
                 resolverVars, rendererVars, waits>>

NextClassify == Classify

SpecClassify == InitClassify /\ [][NextClassify]_vars

(***************************************************************************)
(* SpecResolve: resolveFileInput applied once to each file and ceiling.    *)
(***************************************************************************)
InitResolve ==
  /\ limit = 1
  /\ tokens = 1
  /\ queue = <<>>
  /\ nextTicket = 0
  /\ granted = <<>>
  /\ sinceTick = 0
  /\ maxRetries = 0
  /\ allowedChatIds = {}
  /\ call = [c \in {} |-> IdleCall]
  /\ NoSessions
  /\ NoNormalizer
  /\ NoClassifier
  /\ source \in [file : Files, filename : {<<>>}, maxBytes : 1..MaxBytes]
  /\ resolved = NotResolved
  /\ NoRenderer
  /\ NoWaits

\* resolveFileInput(file, filename, maxBytes) returns or throws
Resolve ==
  /\ resolved = NotResolved
  /\ resolved' = resolveFileInput(source.file, source.filename, source.maxBytes)
  /\ UNCHANGED <<source, limiterVars, configVars, call, sessionVars, normalizerVars,
                 classifierVars, rendererVars, waits>>

NextResolve == Resolve

SpecResolve == InitResolve /\ [][NextResolve]_vars

(***************************************************************************)
(* SpecFileName: resolveFileInput applied once to each filename argument,  *)
(* for an inline payload and for a URL.                                    *)
(***************************************************************************)
InitFileName ==
  /\ limit = 1
  /\ tokens = 1
  /\ queue = <<>>
  /\ nextTicket = 0
  /\ granted = <<>>
  /\ sinceTick = 0
  /\ maxRetries = 0
  /\ allowedChatIds = {}
  /\ call = [c \in {} |-> IdleCall]
  /\ NoSessions
  /\ NoNormalizer
  /\ NoClassifier
  /\ source \in [file : NamedFiles, filename : FileNames, maxBytes : {MaxBytes}]
  /\ resolved = NotResolved
  /\ NoRenderer
  /\ NoWaits

NextFileName == Resolve

SpecFileName == InitFileName /\ [][NextFileName]_vars

(***************************************************************************)
(* SpecErrors: each outcome of a provider call rendered by a tool handler, *)
(* and each thrown value rendered by the catch of POST /messages.         *)
(***************************************************************************)
InitErrors ==
  /\ limit = 1
  /\ tokens = 1
  /\ queue = <<>>
  /\ nextTicket = 0
  /\ granted = <<>>
  /\ sinceTick = 0
  /\ maxRetries = 0
  /\ allowedChatIds = {}
  /\ call = [c \in {} |-> IdleCall]
  /\ NoSessions
  /\ NoNormalizer
  /\ NoClassifier
  /\ NoResolver
  /\ outcome \in ThrownValues \cup {CallReturned}
  /\ rendered = NotRendered
  /\ NoWaits

\* A tool handler ends: its provider call returned, or threw `outcome`
ToolHandler ==
  /\ rendered = NotRendered
  /\ rendered' = toolHandler(outcome)
  /\ UNCHANGED <<outcome, limiterVars, configVars, call, sessionVars, normalizerVars,
                 classifierVars, resolverVars, waits>>

\* POST /messages catches `outcome`
MessagesCatch ==
  /\ rendered = NotRendered
  /\ outcome # CallReturned
  /\ rendered' = messagesCatch(outcome)
  /\ UNCHANGED <<outcome, limiterVars, configVars, call, sessionVars, normalizerVars,
                 classifierVars, resolverVars, waits>>

NextErrors == ToolHandler \/ MessagesCatch

SpecErrors == InitErrors /\ [][NextErrors]_vars

(***************************************************************************)
(* Properties of the limiter (SpecLimiter)                                 *)
(***************************************************************************)
Ascending(s) == \A i \in 1..(Len(s) - 1) : s[i] < s[i + 1]

\* C1: acquisitions are granted strictly in arrival order. Tickets are arrival
\* ranks, so: the grants so far were made in ascending ticket order, the waiters
\* stand in the queue in ascending ticket order, and every waiter arrived after
\* every caller already granted (no acquire took the immediate path past a waiter).
GrantsInArrivalOrder == Ascending(granted \o queue)

\* C1 witness: waiters were released by a refill tick while later callers still wait
WitnessGrantsInArrivalOrder == Len(granted) > limit /\ Len(queue) >= 2

\* C2: the remaining token count stays within 0..limit
TokensWithinCapacity == tokens >= 0 /\ tokens <= limit

\* C2 witness: the bucket was emptied again after a refill tick released waiters
WitnessTokensWithinCapacity == tokens = 0 /\ Len(granted) > limit /\ queue # <<>>

\* C3: at most `limit` acquisitions are granted between two consecutive refill
\* ticks, each of them paid for by a token of that interval's bucket, and a caller
\* is left waiting for the next tick only when the interval's `limit` grants are used up
AtMostLimitPerInterval ==
  /\ sinceTick <= limit
  /\ sinceTick + tokens = limit
  /\ queue # <<>> => sinceTick = limit

\* C3 witness: more acquires than capacity were issued; after a tick the released
\* callers used up the interval and the excess still waits
WitnessAtMostLimitPerInterval ==
  /\ nextTicket > 2 * limit
  /\ Len(granted) = 2 * limit
  /\ sinceTick = limit
  /\ queue # <<>>

(***************************************************************************)
(* Properties of makeRequest (Spec)                                        *)
(***************************************************************************)
Seen500 == Seen(Reply500)

SeenOk == Seen(ReplyOk)

SeenNotOk == Seen(ReplyNotOk)

\* An attempt the HTTP layer rejected with a response status below 500
RejectedBelow500(seen) == seen.http >= 300 /\ seen.http < 500

\* An attempt that ended in a connection/timeout error or a 5xx status
Transient(seen) == seen.http = 0 \/ seen.http >= 500

\* The codes createTelegramError classifies into
ClassifiedCodes == {"TELEGRAM_CHAT_NOT_FOUND", "TELEGRAM_FORBIDDEN", "TELEGRAM_BAD_REQUEST",
                    "TELEGRAM_API_ERROR", "TELEGRAM_MESSAGE_NOT_DELIVERED"}

\* C4: with maxRetries >= 2, a makeRequest whose first two attempts fail with
\* status 500 goes on to a second and a third attempt, waiting 300 ms and then
\* 600 ms, and when the third attempt succeeds it returns the result after
\* exactly three attempts.
RetryTwiceThenSucceed ==
  \A c \in Calls :
    maxRetries >= 2 =>
      /\ call[c].hist = <<Seen500>> =>
           call[c].outcome = "none" /\ call[c].delays = <<300>>
      /\ call[c].hist = <<Seen500, Seen500>> =>
           call[c].outcome = "none" /\ call[c].delays = <<300, 600>>
      /\ call[c].hist = <<Seen500, Seen500, SeenOk>> =>
           /\ call[c].outcome = "returned"
           /\ call[c].delays = <<300, 600>>
           /\ call[c].grants = 3

\* C4 witness: a service call returned its result on the third attempt after two 500s
WitnessRetryTwiceThenSucceed ==
  \E c \in Calls :
    /\ call[c].hist = <<Seen500, Seen500, SeenOk>>
    /\ call[c].pc = "done"
    /\ call[c].result = Success

\* C5: an attempt rejected with a response status below 500 is the last one of
\* its makeRequest, which throws a classified error without a further backoff;
\* when it is the first attempt the call made exactly one attempt and waited no delay.
Below500IsTerminal ==
  \A c \in Calls : \A i \in 1..Len(call[c].hist) :
    RejectedBelow500(call[c].hist[i]) =>
      /\ i = Len(call[c].hist)
      /\ Len(call[c].delays) = i - 1
      /\ call[c].outcome = "threw"
      /\ call[c].pc = "done"
      /\ call[c].result.kind = "error"
      /\ call[c].result.code \in ClassifiedCodes
      /\ call[c].result.status = call[c].hist[i].http

\* C5 witness: with retries configured, a call ended after a single 400
WitnessBelow500IsTerminal ==
  \E c \in Calls :
    /\ maxRetries = maxRetriesDefault
    /\ call[c].hist = <<Seen(Reply400)>>
    /\ call[c].delays = <<>>
    /\ call[c].pc = "done"

\* C6: a 2xx reply whose body reports failure is terminal: one attempt, no retry
BodyFailureIsTerminal ==
  \A c \in Calls :
    (Len(call[c].hist) >= 1 /\ call[c].hist[1] = SeenNotOk) =>
      /\ Len(call[c].hist) = 1
      /\ call[c].delays = <<>>
      /\ call[c].outcome = "threw"

\* The attempts of a makeRequest number at most maxRetries + 1; after the last
\* one it has returned or thrown; what it throws is classified; and when it throws
\* after nothing but transient failures it made exactly maxRetries + 1 attempts.
AttemptsBounded ==
  \A c \in Calls :
    /\ Len(call[c].hist) <= maxRetries + 1
    /\ call[c].grants <= maxRetries + 1
    /\ Len(call[c].hist) = maxRetries + 1 => call[c].outcome # "none"
    /\ call[c].outcome = "threw" =>
         /\ call[c].pc = "done"
         /\ call[c].result.kind = "error"
         /\ call[c].result.code \in ClassifiedCodes
    /\ (call[c].outcome = "threw" /\ \A i \in 1..Len(call[c].hist) : Transient(call[c].hist[i])) =>
         Len(call[c].hist) = maxRetries + 1

\* C7 witness: every attempt failed with a transient failure and the retries ran out
WitnessAttemptsBounded ==
  \E c \in Calls :
    /\ maxRetries = maxRetriesDefault
    /\ call[c].outcome = "threw"
    /\ Len(call[c].hist) = maxRetries + 1
    /\ \A i \in 1..Len(call[c].hist) : Transient(call[c].hist[i])

\* The timers fire, every HTTP attempt and every file resolution ends (each has a
\* timeout), so a call that can take a step eventually takes one
SpecFair ==
  /\ Spec
  /\ WF_vars(Refill)
  /\ WF_vars(\E r \in Replies, id \in ChatIds : HttpRespond(1, r, id))
  /\ WF_vars(BackoffDone(1))
  /\ WF_vars(\E f \in FileOutcomes : FileResolved(1, f))

\* C7: a makeRequest performs at most maxRetries + 1 attempts, throws only
\* classified errors, throws after transient failures only once maxRetries + 1
\* attempts are made, and every call that was started ends
AttemptsBoundedAndEnds ==
  /\ []AttemptsBounded
  /\ (call[1].pc # "idle") ~> (call[1].pc = "done")

(***************************************************************************)
(* Properties of the access policy (Spec)                                  *)
(***************************************************************************)
Denied(x) == allowedChatIds # {} /\ String(x) \notin allowedChatIds

\* C9: a call fails with 403 TELEGRAM_CHAT_NOT_ALLOWED exactly when the identifier
\* x handed to the policy has String(x) outside a non-empty allow-set; with an
\* empty allow-set no call fails that way.
AccessPolicyDecision ==
  \A c \in Calls :
    /\ call[c].result.code = "TELEGRAM_CHAT_NOT_ALLOWED" =>
         call[c].result = NotAllowed /\ call[c].checked # NoChat /\ Denied(call[c].checked)
    /\ (call[c].checked # NoChat /\ Denied(call[c].checked)) =>
         call[c].pc = "done" /\ call[c].result = NotAllowed
    /\ allowedChatIds = {} => call[c].result.code # "TELEGRAM_CHAT_NOT_ALLOWED"

\* C9 witness: sendMessage to a chat outside the allow-set was rejected
WitnessAccessPolicyDecision ==
  \E c \in Calls :
    /\ call[c].op = "sendMessage"
    /\ call[c].dest = Dest2
    /\ allowedChatIds = {Dest1}
    /\ call[c].result = NotAllowed

\* The destinations that are aliases (leading "@")
Aliases == {d \in Dests : Head(d) = "@"}

\* C10: for an alias destination, sendMessage/sendDocument hand the policy only the
\* identifier getChat resolved (never the alias text), nothing is checked or sent
\* before the lookup has returned, and a send request carries the resolved identifier,
\* which the allow-set permits.
AliasResolvedBeforeAccess ==
  \A c \in Calls :
    (call[c].op \in {"sendMessage", "sendDocument"} /\ call[c].dest \in Aliases) =>
      /\ call[c].checked # NoChat => call[c].checked.t = "num"
      /\ (call[c].req = "getChat" /\ call[c].outcome = "none") =>
           call[c].checked = NoChat /\ call[c].sent = NoChat
      /\ call[c].result = NotAllowed <=> (call[c].checked # NoChat /\ Denied(call[c].checked))
      /\ (call[c].checked # NoChat /\ ~Denied(call[c].checked)) =>
           /\ call[c].chatId = call[c].checked
           /\ call[c].op = "sendMessage" => call[c].sent = call[c].checked
      /\ call[c].sent # NoChat =>
           call[c].sent = call[c].chatId /\ call[c].sent.t = "num" /\ ~Denied(call[c].sent)

\* C10 witness: the alias is listed verbatim in the allow-set, its resolved
\* identifier is not, and the send was rejected
WitnessAliasResolvedBeforeAccess ==
  \E c \in Calls :
    /\ call[c].op = "sendMessage"
    /\ call[c].dest = DestAlias
    /\ DestAlias \in allowedChatIds
    /\ call[c].checked.t = "num"
    /\ call[c].result = NotAllowed

\* An alias that is not listed resolves to a listed identifier and the message goes out
AliasPermittedByResolvedId ==
  \E c \in Calls :
    /\ call[c].op = "sendMessage"
    /\ call[c].dest = DestAlias
    /\ allowedChatIds = {Dest1}
    /\ call[c].sent = Num(1)
    /\ call[c].result = Success

\* A send (sendMessage, sendDocument) whose destination the access policy rejected
Rejected ==
  /\ call[1].op \in {"sendMessage", "sendDocument"}
  /\ call[1].checked # NoChat
  /\ Denied(call[1].checked)

\* What a rejected send has done: it threw 403 TELEGRAM_CHAT_NOT_ALLOWED, no
\* request of its own operation carries a chat_id; a non-alias destination made
\* no makeRequest at all and left the limiter as constructed, an alias
\* destination made the getChat lookup, which returned, and nothing after it.
RejectedDidNothing ==
  Rejected =>
    /\ call[1].pc = "done" /\ call[1].result = NotAllowed
    /\ call[1].sent = NoChat
    /\ call[1].req \notin {"sendMessage", "sendDocument"}
    /\ call[1].dest \notin Aliases =>
         /\ call[1].req = "none" /\ call[1].hist = <<>> /\ call[1].grants = 0
         /\ tokens = limit /\ queue = <<>> /\ nextTicket = 0 /\ granted = <<>>
    /\ call[1].dest \in Aliases =>
         /\ call[1].req = "getChat" /\ call[1].outcome = "returned"
         /\ call[1].grants = Len(call[1].hist)
         /\ Len(granted) = call[1].grants

\* C11: when the access policy rejects the destination of sendMessage or
\* sendDocument, no sendMessage/sendDocument request is issued and no file is
\* resolved, before the rejection or after it; a non-alias destination is rejected
\* before any downstream call and without a limiter token, an alias destination
\* after the getChat lookup only.
RejectedSendNeverHappens ==
  /\ []RejectedDidNothing
  /\ [](call[1].pc = "file" => [](~Rejected))
  /\ [](call[1].sent # NoChat => [](~Rejected))
  /\ [](Rejected => [](call[1].pc = "done" /\ call[1].sent = NoChat))

\* C11 witness: sendDocument to an alias was rejected on the identifier the lookup
\* returned, after the lookup had been retried
WitnessRejectedSendNeverHappens ==
  /\ Rejected
  /\ call[1].op = "sendDocument"
  /\ call[1].dest = DestAlias
  /\ Len(call[1].hist) = 2
  /\ call[1].result = NotAllowed

\* A send to a non-alias destination was rejected
WitnessRejectedBeforeAnyCall ==
  /\ Rejected
  /\ call[1].op = "sendMessage"
  /\ call[1].dest = Dest2
  /\ call[1].req = "none"


(***************************************************************************)
(* Properties of makeRequest over the limiter (SpecConcurrent)             *)
(***************************************************************************)
RECURSIVE SumGrants(_)
SumGrants(cs) ==
  IF cs = {} THEN 0
  ELSE LET c == CHOOSE x \in cs : TRUE IN call[c].grants + SumGrants(cs \ {c})

\* C8: every HTTP attempt has its own granted token: a call with a request in
\* flight was granted one token more than it has finished attempts, any other call
\* exactly as many, and the tokens the limiter granted are the tokens the calls
\* hold; a call suspended in acquire, a retry included, stands in the queue at
\* its arrival rank.
TokenPerAttempt ==
  /\ \A c \in Calls :
       /\ call[c].pc = "http" => call[c].grants = Len(call[c].hist) + 1
       /\ call[c].pc # "http" => call[c].grants = Len(call[c].hist)
       /\ call[c].pc = "waiting" <=> call[c].ticket \in SeqRange(queue)
  /\ Len(granted) = SumGrants(Calls)
  /\ Ascending(queue)

\* C8 witness: a retry waits in the queue behind a call that waits for its first attempt
WitnessTokenPerAttempt ==
  \E a, b \in Calls :
    /\ call[a].pc = "waiting" /\ call[a].attempt >= 1
    /\ call[b].pc = "waiting" /\ call[b].attempt = 0
    /\ queue = <<call[b].ticket, call[a].ticket>>

(***************************************************************************)
(* Properties of the session registry (SpecSessions)                       *)
(***************************************************************************)
\* The 'close' handler of channel id has run
closeHandlerRan(id) == channel[id].state = "closed"

\* The catch of the failed connect of channel id has run
connectFailureRan(id) == channel[id].connect = "failed"

closedOnce(id) == closeHandlerRan(id) \/ connectFailureRan(id)

closedTwice(id) == closeHandlerRan(id) /\ connectFailureRan(id)

\* After either closing path the session is out of the registry, its timer cancelled
ClosedIsAbsent ==
  \A id \in DOMAIN channel : closedOnce(id) => id \notin DOMAIN sessions /\ id \notin timers

\* The path that runs second changes neither the registry nor the timers
SecondCloseChangesNothing ==
  \A id \in DOMAIN channel :
    (closedOnce(id) /\ ~closedTwice(id) /\ closedTwice(id)') =>
      sessions' = sessions /\ timers' = timers

\* C12: when the 'close' handler and the connect-failure path both run for a
\* session, in either order, the session is out of the registry and its keepalive
\* timer cancelled after the first, and the second leaves the registry, the
\* timers and so every other session as they were.
CloseIsIdempotent == []ClosedIsAbsent /\ [][SecondCloseChangesNothing]_vars

\* C12 witness: both paths ran for session 1 while session 2 stays open
WitnessCloseIsIdempotent ==
  /\ 1 \in DOMAIN channel /\ closedTwice(1)
  /\ 2 \in DOMAIN sessions /\ 2 \in timers

\* The 'close' handler ran first and the connect-failure path is still to come
CloseBeforeConnectFailure ==
  \E id \in DOMAIN channel : channel[id].state = "closed" /\ channel[id].connect = "rejecting"

\* The connect-failure path ran first and 'close' is still to come
ConnectFailureBeforeClose ==
  \E id \in DOMAIN channel : channel[id].state = "ended" /\ channel[id].connect = "failed"

\* C13: a message event appears only on the channel of the session its request
\* was routed to, whatever the order in which the sessions were opened.
ResultOnOwnChannel ==
  \A c \in DOMAIN channel : \A k \in 1..Len(channel[c].events) :
    channel[c].events[k].type = "message" => channel[c].events[k].origin = c

\* Session 2 was opened after session 1; the answer to a request routed to
\* session 1 was written on the channel of session 2
ResultOnOtherChannel ==
  /\ 2 \in DOMAIN channel
  /\ \E k \in 1..Len(channel[2].events) :
       channel[2].events[k].type = "message" /\ channel[2].events[k].origin = 1

\* Something went wrong on session a: its channel closed, its connect failed,
\* its keepalive write threw, or a route to it failed
DisturbanceOn(a) ==
  \/ ChannelClose(a)
  \/ ConnectSettled(a) /\ channel[a].connect = "rejecting"
  \/ KeepAlive(a, FALSE)
  \/ \E r \in PostRequests :
       /\ r.sessionId = a
       /\ PostMessages(r.header, r.sessionId, r.body, r.allowLegacyBody)
       /\ response'.status # 202

\* route would find session b and hand its envelope over
Routable(b) == b \in DOMAIN sessions /\ b \in DOMAIN channel /\ channel[b].state = "open"

\* Every other session keeps its registry entry, its timestamps, its timer and
\* its channel
OthersUntouched(a) ==
  \A b \in DOMAIN sessions \ {a} :
    /\ b \in DOMAIN sessions' /\ sessions'[b] = sessions[b]
    /\ b \in timers <=> b \in timers'
    /\ channel'[b] = channel[b]
    /\ Routable(b) => Routable(b)'

\* C14: closing session a, a failed keepalive write on a or a failed route on a
\* leaves every other session's registry entry, last-activity timestamp and
\* keepalive timer unchanged, and the other sessions routable.
SessionsIndependent == [][\A a \in SessionIds : OthersUntouched(a) \/ ~DisturbanceOn(a)]_vars

\* C14 witness: session 1 is closed and a route to it has just failed, while
\* session 2 is open with its timer and was last touched after it was created
WitnessSessionsIndependent ==
  /\ 1 \in DOMAIN channel /\ channel[1].state = "closed"
  /\ response = ErrorResponse("POST /messages", Failure(404, "SESSION_NOT_FOUND"))
  /\ 2 \in DOMAIN sessions /\ 2 \in timers /\ Routable(2)
  /\ sessions[2].lastSeenAt > sessions[2].createdAt

\* The session-not-found response
SessionNotFound == ErrorResponse("POST /messages", Failure(404, "SESSION_NOT_FOUND"))

\* An authenticated POST /messages names a session that is not in the registry
RouteToAbsent(r) ==
  /\ authenticate(authBearer, r.header)
  /\ r.sessionId # 0
  /\ r.sessionId \notin DOMAIN sessions
  /\ PostMessages(r.header, r.sessionId, r.body, r.allowLegacyBody)

\* C15: a route whose session identifier is not in the registry (never opened, or
\* closed) is answered 404 SESSION_NOT_FOUND whatever the body, a malformed one
\* included: no normalizer error is returned, nothing is forwarded and the
\* registry, the timers and the channels are unchanged.
AbsentSessionNotFound ==
  [][\A r \in PostRequests :
       \/ /\ response' = SessionNotFound
          /\ UNCHANGED <<sessions, timers, channel, inflight, forwarded, serverTransport>>
       \/ ~RouteToAbsent(r)]_vars

\* C15 witness: session 1 was opened and closed, session 2 is open, and a route
\* was answered 404
WitnessAbsentSessionNotFound ==
  /\ 1 \in DOMAIN channel /\ channel[1].state = "closed" /\ channel[1].connect = "connected"
  /\ response = SessionNotFound
  /\ DOMAIN sessions = {2}
  /\ forwarded = 0

\* The error normalizeIncomingMessage throws for the body of request r (Success: none)
normalizerError(r) == normalizeIncomingMessage(r.body, r.allowLegacyBody, GeneratedId).err

\* The requests whose body fails normalization
MalformedRequests == {r \in PostRequests : normalizerError(r) # Success}

\* An authenticated POST /messages for a registered session
RouteToRegistered(r) ==
  /\ authenticate(authBearer, r.header)
  /\ r.sessionId \in DOMAIN sessions
  /\ PostMessages(r.header, r.sessionId, r.body, r.allowLegacyBody)

\* C16: when the body of a route to a registered session fails normalization, the
\* response carries the normalizer's own status and code, no envelope is
\* forwarded, and the session keeps its registry entry, last-activity timestamp
\* included, its timer and its channel, so that later requests still find it.
NormalizerErrorReturned ==
  [][\A r \in MalformedRequests :
       \/ r.sessionId \notin DOMAIN sessions
       \/ /\ response' = Response("POST /messages", normalizerError(r).status,
                                  normalizerError(r).code, "")
          /\ response'.status = 400
          /\ UNCHANGED <<sessions, timers, channel, inflight, forwarded, serverTransport>>
       \/ ~RouteToRegistered(r)]_vars

\* C16 witness: a legacy body was refused with 400 INVALID_REQUEST on a session
\* that is still registered and whose last activity is older than the clock
WitnessNormalizerErrorReturned ==
  /\ response = ErrorResponse("POST /messages", Failure(400, "INVALID_REQUEST"))
  /\ DOMAIN sessions = {1}
  /\ 1 \in timers /\ Routable(1)
  /\ sessions[1].lastSeenAt < now

\* A body matching neither dialect was refused with 400 INVALID_JSON
WitnessMalformedRefused ==
  /\ response = ErrorResponse("POST /messages", Failure(400, "INVALID_JSON"))
  /\ DOMAIN sessions = {1}
  /\ sessions[1].lastSeenAt < now

\* The 202 response of POST /messages
Accepted == Response("POST /messages", 202, "", "Accepted")

\* The envelopes in flight that the step added
newInflight == inflight' \ inflight

\* What a POST /messages step answered with 202 did for request r
AcceptedRoute(r) ==
  LET n == normalizeIncomingMessage(r.body, r.allowLegacyBody, GeneratedId)
  IN  /\ r.sessionId \in DOMAIN sessions
      /\ n.err = Success
      /\ sessions' = [sessions EXCEPT ![r.sessionId].lastSeenAt = now]
      /\ forwarded' = forwarded + 1
      /\ inflight \subseteq inflight'
      /\ started(r.sessionId) =>
           newInflight = {[n |-> forwarded', session |-> r.sessionId,
                           msg |-> n.msg, via |-> serverTransport]}
      /\ response' = Accepted
      /\ channel' = channel

\* C17: a route answered with 202 has set the session's last activity to the
\* current time and handed the canonical envelope once to that session's
\* transport; the response is the bare "Accepted" while the handler of the
\* envelope is still in flight, and no event is written on any channel by the
\* step.  No POST /messages adds or removes a registry entry.
AcknowledgedBeforeResult ==
  [][\A r \in SessionPosts :
       \/ /\ DOMAIN sessions' = DOMAIN sessions
          /\ response'.status = 202 => AcceptedRoute(r)
       \/ ~PostMessages(r.header, r.sessionId, r.body, r.allowLegacyBody)]_vars

\* C17 witness: a request was acknowledged with 202 after the clock advanced, its
\* handler has not ended and no message event has been written
WitnessAcknowledgedBeforeResult ==
  /\ response = Accepted
  /\ forwarded = 1
  /\ \E item \in inflight :
       /\ item.msg.id = JStr("1")
       /\ item.session \in DOMAIN sessions
       /\ sessions[item.session].lastSeenAt > sessions[item.session].createdAt
  /\ \A id \in DOMAIN channel : \A i \in DOMAIN channel[id].events :
       channel[id].events[i].type # "message"

\* The header is Authorization: Bearer <the configured credential>
Matches(header) == header.present /\ header.s = BearerPrefix \o authBearer

\* The 401 response to request req
Unauthorized(req) == ErrorResponse(req, Failure(401, "UNAUTHORIZED"))

\* The step answered req with 401 and did nothing else
Refused(req) ==
  /\ response' = Unauthorized(req)
  /\ UNCHANGED <<authBearer, sessions, timers, channel, serverTransport, now,
                 inflight, forwarded>>

\* C18: with a credential configured, a GET /sse or POST /messages whose
\* Authorization header is missing or is not "Bearer <credential>" is answered 401
\* UNAUTHORIZED and changes nothing: no session, timer or channel is created, no
\* envelope is forwarded and no timestamp is written.  With no credential
\* configured no request is answered 401.
UnauthorizedChangesNothing ==
  [][/\ \A r \in PostRequests :
          \/ authBearer = <<>>
          \/ Matches(r.header)
          \/ Refused("POST /messages")
          \/ ~PostMessages(r.header, r.sessionId, r.body, r.allowLegacyBody)
     /\ \A r \in GetRequests :
          \/ authBearer = <<>>
          \/ Matches(r.header)
          \/ Refused("GET /sse")
          \/ ~GetSse(r.header, r.hint, r.connects)
     /\ authBearer = <<>> => response'.status # 401]_vars

\* C18 witness: with a credential configured and a session open, a follow-up
\* request was answered 401 and nothing was forwarded
WitnessUnauthorizedChangesNothing ==
  /\ authBearer = Token
  /\ response = Unauthorized("POST /messages")
  /\ DOMAIN sessions = {1}
  /\ sessions[1].lastSeenAt < now
  /\ forwarded = 0

\* With a credential configured, a channel-open request was answered 401 and no
\* session exists
WitnessOpenRefused ==
  /\ authBearer = Token
  /\ response = Unauthorized("GET /sse")
  /\ sessions = <<>> /\ timers = {} /\ channel = <<>>

\* With no credential configured, a request without a header opened a session
WitnessNoCredential ==
  /\ authBearer = <<>>
  /\ DOMAIN sessions # {}
  /\ response.status = 202

\* The first event written on every started channel is the endpoint event that
\* carries the identifier the session is registered under, whatever sessionId the
\* client put in the query of GET /sse
EndpointEventFirst ==
  \A id \in DOMAIN channel :
    started(id) =>
      /\ channel[id].events # <<>>
      /\ channel[id].events[1] = EndpointEvent(id)
      /\ channel[id].state = "open" /\ channel[id].connect = "connected" => id \in DOMAIN sessions

\* The handler of a request routed to session a ends while a is registered and its
\* channel is open
AnswerDue(item, target) ==
  /\ item.msg.id # Undefined
  /\ Routable(item.session)
  /\ started(item.session)
  /\ HandlerDone(item, target)

\* C19: the request acknowledged with 202 on the path of a session is followed, on
\* that session's channel, by a message event with the id of the request: when
\* its handler ends while the channel is open, the event is appended to the
\* events of that channel.
MessageFollowsOnSameChannel ==
  [][\A item \in inflight, target \in 0..MaxSessions :
       \/ /\ item.session \in DOMAIN channel'
          /\ channel'[item.session].events =
               Append(channel[item.session].events, MessageEvent(item.msg.id, item.session))
       \/ ~AnswerDue(item, target)]_vars

(***************************************************************************)
(* Properties of the envelope normalizer (SpecNormalize)                   *)
(***************************************************************************)
\* The value the schemas are applied to: the input, or what its text encodes
candidateOf(input) == IF input.kind = "string" /\ input.json # "invalid" THEN JSONparse(input) ELSE input

\* The input matches the canonical dialect: an object with jsonrpc "2.0", a
\* non-empty method string and an id that is absent, a string or a number
MatchesCanonical(input) ==
  LET c == candidateOf(input)
  IN  /\ c.kind = "object"
      /\ c.jsonrpc = JStr("2.0")
      /\ c.method.t = "string" /\ c.method.v # <<"">>
      /\ c.id.t \in {"undefined", "string", "number"}

\* The method the normalized envelope is to carry for method m
ExpectedMethod(m) ==
  IF m = JStr("call_tool") THEN JStr("tools/call")
  ELSE IF m = JStr("list_tools") THEN JStr("tools/list")
  ELSE m

\* The call returned an envelope with the expected method and with the id and
\* the params of the input
NormalizedAsExpected ==
  /\ normalized.err = Success
  /\ normalized.msg.method = ExpectedMethod(candidateOf(raw.input).method)
  /\ normalized.msg.id = candidateOf(raw.input).id
  /\ normalized.msg.params = candidateOf(raw.input).params

\* C20: for every input matching the canonical dialect the normalized method is
\* "tools/call" for "call_tool", "tools/list" for "list_tools" and the input's
\* method for every other non-empty method string; id and params are those of
\* the input.
CanonicalMethodNormalized ==
  (normalized # NotCalled /\ MatchesCanonical(raw.input)) => NormalizedAsExpected

\* The same for the methods that are not the name of a member of Object.prototype
OwnMethodNormalized ==
  (/\ normalized # NotCalled
   /\ MatchesCanonical(raw.input)
   /\ candidateOf(raw.input).method.v[1] \notin ObjectPrototype) => NormalizedAsExpected

\* An alias, and a method that is no alias, were normalized as expected
AliasNormalized ==
  /\ normalized # NotCalled
  /\ raw.input = Object(JStr("2.0"), JStr("1"), JStr("list_tools"), Undefined, Undefined, Undefined)
  /\ normalized.msg.method = JStr("tools/list")

\* The method "toString" came out as the function Object.prototype.toString
InheritedMemberReturned ==
  /\ raw.input = InheritedMethodCall
  /\ normalized.err = Success
  /\ normalized.msg.method = JProto("toString")


\* The input matches the legacy dialect and not the canonical one: an object with
\* a non-empty tool string, an id that is absent, a string or a number, and
\* arguments that are absent or an object
MatchesLegacyOnly(input) ==
  LET c == candidateOf(input)
  IN  /\ c.kind = "object"
      /\ ~MatchesCanonical(input)
      /\ c.tool.t = "string" /\ c.tool.v # <<"">>
      /\ c.id.t \in {"undefined", "string", "number"}
      /\ c.arguments.t \in {"undefined", "object"}

\* The envelope a legacy input is wrapped into: {jsonrpc: "2.0", id, method:
\* "tools/call", params: {name: tool, arguments}}
Wrapped(c) ==
  [kind |-> "object", json |-> "none", jsonrpc |-> JStr("2.0"),
   id |-> IF c.id.t = "undefined" THEN JStr(GeneratedId) ELSE c.id,
   method |-> JStr("tools/call"),
   params |-> Val("object", <<"name">> \o c.tool.v \o <<"arguments">>
                              \o (IF c.arguments.t = "object" THEN c.arguments.v ELSE <<>>)),
   tool |-> Undefined, arguments |-> Undefined]

\* C21: an input matching the legacy dialect only is, with legacy bodies enabled,
\* returned as {jsonrpc "2.0", id: its id or a generated one, method
\* "tools/call", params {name: tool, arguments}}; with legacy bodies disabled
\* the call throws 400 INVALID_REQUEST.
LegacyWrappedOrRefused ==
  (normalized # NotCalled /\ MatchesLegacyOnly(raw.input)) =>
    IF raw.allowLegacyBody
      THEN /\ normalized.err = Success
           /\ normalized.msg = Wrapped(candidateOf(raw.input))
           /\ normalized.msg.id.t \in {"string", "number"}
      ELSE normalized.err = Failure(400, "INVALID_REQUEST")

\* C21 witness: a legacy input without id and with arguments {text: "hi"} was
\* wrapped under a generated id
WitnessLegacyWrappedOrRefused ==
  /\ raw = [input |-> Object(Undefined, Undefined, Undefined, Undefined,
                             JStr("system.health"), TextArguments),
            allowLegacyBody |-> TRUE]
  /\ normalized.err = Success
  /\ normalized.msg.id = JStr(GeneratedId)
  /\ normalized.msg.params = Val("object", <<"name", "system.health", "arguments", "text", "hi">>)

\* A legacy input was refused with legacy bodies disabled
WitnessLegacyRefused ==
  /\ raw = [input |-> LegacyCall, allowLegacyBody |-> FALSE]
  /\ normalized.err = Failure(400, "INVALID_REQUEST")


\* A flat object with a non-empty tool string and an id that is absent, a string
\* or a number, whose arguments are present and are not an object
LegacyWithNonObjectArguments(input) ==
  LET c == candidateOf(input)
  IN  /\ c.kind = "object"
      /\ ~MatchesCanonical(input)
      /\ c.tool.t = "string" /\ c.tool.v # <<"">>
      /\ c.id.t \in {"undefined", "string", "number"}
      /\ c.arguments.t \in {"string", "number", "array", "null"}

\* C22: with legacy bodies enabled, a legacy input whose arguments are present
\* and not an object (string, number, array, null) is returned as a tools/call
\* envelope whose params are {name: tool, arguments: {}}.
NonObjectArgumentsCoerced ==
  (/\ normalized # NotCalled
   /\ raw.allowLegacyBody
   /\ LegacyWithNonObjectArguments(raw.input)) =>
     /\ normalized.err = Success
     /\ normalized.msg.method = JStr("tools/call")
     /\ normalized.msg.params =
          Val("object", <<"name">> \o candidateOf(raw.input).tool.v \o <<"arguments">>)

\* {tool: "system.health", arguments: "x"} was refused with 400 INVALID_JSON
\* while legacy bodies were enabled
NonObjectArgumentsRefused ==
  /\ raw = [input |-> Object(Undefined, Undefined, Undefined, Undefined,
                             JStr("system.health"), JStr("x")),
            allowLegacyBody |-> TRUE]
  /\ normalized.err = Failure(400, "INVALID_JSON")


\* The outcome of a call: an envelope was returned, or one of the two errors thrown
OutcomeOf(n) ==
  IF n.err = Success THEN "Envelope"
  ELSE IF n.err = Failure(400, "INVALID_JSON") THEN "MalformedPayload"
  ELSE IF n.err = Failure(400, "INVALID_REQUEST") THEN "LegacyDialectDisabled"
  ELSE "Other"

\* The outcome the input and the legacy flag determine
ExpectedOutcome(input, allowLegacy) ==
  IF input.kind = "string" /\ input.json = "invalid" THEN "MalformedPayload"
  ELSE IF MatchesCanonical(input) THEN "Envelope"
  ELSE IF MatchesLegacyOnly(input)
    THEN IF allowLegacy THEN "Envelope" ELSE "LegacyDialectDisabled"
  ELSE "MalformedPayload"

WitnessNotJsonRefused ==
  /\ raw.input \in {NotJson, Text(NonObject("number"))}
  /\ normalized.err = Failure(400, "INVALID_JSON")


\* Session id left the registry, or its timer stopped, in the step
removed(id) ==
  \/ id \in DOMAIN sessions /\ id \notin DOMAIN sessions'
  \/ id \in timers /\ id \notin timers'

\* C24: a keepalive write that throws increases the failures of the channel and
\* nothing else: the session keeps its registry entry and its timer and its
\* channel stays open.  A session leaves the registry, and its timer stops, only
\* in the step of its channel's 'close' or of its failed connect.
KeepAliveFailureKeepsSession ==
  [][\A id \in SessionIds :
       /\ \/ /\ id \in DOMAIN sessions' /\ sessions' = sessions
             /\ id \in timers' /\ timers' = timers
             /\ channel'[id].state = channel[id].state
             /\ Routable(id) => Routable(id)'
          \/ ~KeepAlive(id, FALSE)
       /\ \/ ~removed(id)
          \/ ChannelClose(id)
          \/ ConnectSettled(id)]_vars

\* C24 witness: two keepalive writes failed on the channel of session 1, which is
\* still registered, with its timer running and its channel open
WitnessKeepAliveFailureKeepsSession ==
  /\ 1 \in DOMAIN channel
  /\ channel[1].failures = 2
  /\ 1 \in DOMAIN sessions /\ 1 \in timers /\ Routable(1)


\* A keepalive write was attempted on the channel of session id in the step
keepAliveFired(id) ==
  \/ channel'[id].pings # channel[id].pings
  \/ channel'[id].failures # channel[id].failures

\* A timer runs only for a session present in the registry
TimersOfRegisteredSessions == timers \subseteq DOMAIN sessions

\* C25: a closed session has no keepalive timer and no keepalive write is
\* attempted on its channel afterwards; a keepalive timer runs only for sessions
\* present in the registry.
ClosedSessionHasNoTimer ==
  /\ [](TimersOfRegisteredSessions /\ \A id \in DOMAIN channel : closedOnce(id) => id \notin timers)
  /\ [][\A id \in DOMAIN channel : closedOnce(id) => ~keepAliveFired(id)]_vars

\* C25 witness: session 1 received a keepalive event and was then closed by its
\* channel's disconnect, session 2 was closed by its failed connect, and no timer
\* is left
WitnessClosedSessionHasNoTimer ==
  /\ DOMAIN channel = {1, 2}
  /\ channel[1].pings = 1 /\ closeHandlerRan(1)
  /\ connectFailureRan(2)
  /\ timers = {} /\ sessions = <<>>


\* The handler of an envelope routed to a session that has been closed since ends
OrphanDone(item, target) ==
  /\ closedOnce(item.session)
  /\ HandlerDone(item, target)

\* The completion of a handler changes neither the registry nor the timers
CompletionKeepsRegistry ==
  [][\A item \in inflight, target \in 0..MaxSessions :
       \/ sessions' = sessions /\ timers' = timers
       \/ ~HandlerDone(item, target)]_vars

\* C26: when the handler of an envelope ends after the session it was routed to
\* was closed, the result is discarded: the closed session is not put back into
\* the registry and no session's entry, timer or channel changes.
OrphanResultDiscarded ==
  [][\A item \in inflight, target \in 0..MaxSessions :
       \/ sessions' = sessions /\ timers' = timers /\ channel' = channel
       \/ ~OrphanDone(item, target)]_vars

\* Session 1 was closed with a request in flight and session 2 is open: the
\* answer to the request was written on the channel of session 2
OrphanResultDelivered ==
  /\ DOMAIN channel = {1, 2}
  /\ closeHandlerRan(1) /\ Routable(2)
  /\ inflight = {}
  /\ \E k \in 1..Len(channel[2].events) :
       channel[2].events[k].type = "message" /\ channel[2].events[k].origin = 1


(***************************************************************************)
(* Properties of the error classification (SpecClassify)                   *)
(***************************************************************************)
\* The kind codes createTelegramError gives
ClassifiedKinds ==
  {"TELEGRAM_CHAT_NOT_FOUND", "TELEGRAM_FORBIDDEN", "TELEGRAM_BAD_REQUEST",
   "TELEGRAM_API_ERROR", "TELEGRAM_MESSAGE_NOT_DELIVERED"}

\* The statuses an error of kind code carries
StatusesOfKind(code) ==
  CASE code = "TELEGRAM_CHAT_NOT_FOUND" -> {400}
    [] code = "TELEGRAM_FORBIDDEN" -> {403}
    [] code = "TELEGRAM_BAD_REQUEST" -> {400}
    [] code = "TELEGRAM_API_ERROR" -> {429} \cup 500..599
    [] code = "TELEGRAM_MESSAGE_NOT_DELIVERED" -> ((1..499) \ {400, 403, 429}) \cup {502}
    [] OTHER -> {}

\* C27: for every status, description (or none), operation and original
\* destination createTelegramError returns one error whose kind is one of the
\* kinds of the classification and whose status is a defined status of that kind.
ClassificationTotal ==
  classified # Pending =>
    /\ classified.kind = "error"
    /\ classified.code \in ClassifiedKinds
    /\ classified.status \in StatusesOfKind(classified.code)

\* C27 witness: a failure without status and without description was classified
\* as 502 TELEGRAM_MESSAGE_NOT_DELIVERED
WitnessClassificationTotal ==
  /\ failure.status = 0 /\ failure.description = ""
  /\ classified = Failure(502, "TELEGRAM_MESSAGE_NOT_DELIVERED")

\* The hint for an alias that getChat did not find was given
WitnessChatNotFoundHint ==
  /\ failure = [status |-> 400, description |-> MsgChatNotFound, operation |-> "getChat",
                originalChatId |-> DestAlias]
  /\ classified = Failure(400, "TELEGRAM_CHAT_NOT_FOUND")

\* The kind codes given to the failures with a 5xx status and the description,
\* operation and destination of the failure classified
ProviderInternalErrorKinds ==
  {createTelegramError(s, failure.description, failure.operation, failure.originalChatId).code :
     s \in {500, 502, 503}}

\* C28: a failure with status 429 gets a kind code that no failure with a 5xx
\* status gets.
RateLimitedKindDistinct ==
  (classified # Pending /\ failure.status = 429 /\ failure.description = MsgTooMany) =>
    classified.code \notin ProviderInternalErrorKinds

\* A 429 "Too Many Requests" was classified as TELEGRAM_API_ERROR, the kind of the
\* 5xx failures
RateLimitedAsApiError ==
  /\ failure.status = 429 /\ failure.description = MsgTooMany
  /\ classified = Failure(429, "TELEGRAM_API_ERROR")
  /\ "TELEGRAM_API_ERROR" \in ProviderInternalErrorKinds


(***************************************************************************)
(* Properties of the resource resolver (SpecResolve)                       *)
(***************************************************************************)
\* The file is a well-formed data: reference whose data decodes to more bytes
\* than the ceiling
InlineOverCeiling ==
  /\ source.file.scheme = "data"
  /\ source.file.wellFormed
  /\ (source.file.chars * 3) \div 4 > source.maxBytes

\* C29: a data: reference whose decoded size exceeds maxBytes is refused with 413
\* TELEGRAM_DOCUMENT_TOO_LARGE, and a buffer returned from either branch is never
\* longer than maxBytes.
InlineOverCeilingTooLarge ==
  resolved # NotResolved =>
    /\ InlineOverCeiling => resolved.err = Failure(413, "TELEGRAM_DOCUMENT_TOO_LARGE")
    /\ resolved.err = Success => resolved.bytes <= source.maxBytes

\* C29 witness: a data: reference decoding to one byte more than the ceiling was
\* refused with 413
WitnessInlineOverCeilingTooLarge ==
  /\ source.file.scheme = "data"
  /\ (source.file.chars * 3) \div 4 = source.maxBytes + 1
  /\ resolved.err = Failure(413, "TELEGRAM_DOCUMENT_TOO_LARGE")

\* Buffers of exactly maxBytes bytes were returned from a data: reference and
\* from a URL
WitnessAtCeilingReturned ==
  /\ resolved.err = Success
  /\ resolved.bytes = source.maxBytes

\* The URL is fetched and its body is longer than the ceiling
RemoteOverCeiling ==
  /\ source.file.scheme \in {"http:", "https:"}
  /\ source.file.fetch = "ok"
  /\ source.file.bytes > source.maxBytes

\* The fetch of the URL fails: timeout, connection error, non-2xx status
TransportFailure ==
  /\ source.file.scheme \in {"http:", "https:"}
  /\ source.file.fetch # "ok"

\* C30: for a URL, a body over the ceiling is refused with 413
\* TELEGRAM_DOCUMENT_TOO_LARGE and a transport failure with 502
\* FILE_DOWNLOAD_FAILED.
RemoteFailureCauseDistinguished ==
  resolved # NotResolved =>
    /\ RemoteOverCeiling => resolved.err = Failure(413, "TELEGRAM_DOCUMENT_TOO_LARGE")
    /\ TransportFailure => resolved.err = Failure(502, "FILE_DOWNLOAD_FAILED")

\* A transport failure gives 502 FILE_DOWNLOAD_FAILED
TransportFailureDownloadFailed ==
  (resolved # NotResolved /\ TransportFailure) =>
    resolved.err = Failure(502, "FILE_DOWNLOAD_FAILED")

\* A body over the ceiling was refused with 502 FILE_DOWNLOAD_FAILED
RemoteOverCeilingDownloadFailed ==
  /\ RemoteOverCeiling
  /\ resolved.err = Failure(502, "FILE_DOWNLOAD_FAILED")


\* The reference is no data: reference, and new URL() rejects it or gives a URL
\* whose protocol is neither http: nor https:
NotInlineNotWeb == source.file.scheme \notin {"data", "http:", "https:"}

\* C31: a reference that is no inline payload and is not a parseable URL, or is a
\* URL of a protocol other than http: and https:, is refused with 400
\* FILE_INVALID_SOURCE and axios.get is never called for it; the GET is made
\* exactly for the http: and https: URLs.
OtherSourceRefusedUnfetched ==
  resolved # NotResolved =>
    /\ NotInlineNotWeb =>
         /\ resolved.err = Failure(400, "FILE_INVALID_SOURCE")
         /\ ~resolved.fetched
    /\ resolved.fetched <=> source.file.scheme \in {"http:", "https:"}

\* C31 witness: an ftp: URL whose resource a GET would return was refused with 400
\* FILE_INVALID_SOURCE without a fetch
WitnessOtherSourceRefusedUnfetched ==
  /\ source.file.scheme = "ftp:"
  /\ source.file.fetch = "ok"
  /\ resolved.err = Failure(400, "FILE_INVALID_SOURCE")
  /\ ~resolved.fetched

\* A string that new URL() rejects was refused with 400 FILE_INVALID_SOURCE
WitnessUnparseableRefused ==
  /\ source.file.scheme = "invalid"
  /\ resolved.err = Failure(400, "FILE_INVALID_SOURCE")


\* The name is made of characters of [A-Za-z0-9_.-] only
InAllowList(name) == \A i \in 1..Len(name) : name[i] \in SafeCharacters

\* Every returned filename is made of allow-listed characters: it holds no "/" and
\* no control character
ResolvedFilenameInAllowList ==
  resolved.err = Success =>
    /\ InAllowList(resolved.filename)
    /\ \A i \in 1..Len(resolved.filename) :
         resolved.filename[i] \notin ControlCharacters \cup {"/"}

\* The filename "../../x" is returned as "x"
TraversalReducedToBasename ==
  (resolved.err = Success /\ source.filename = TraversalName) => resolved.filename = <<"x">>

\* C32: from the inline payload and from the URL alike, the returned filename is
\* made of characters of [A-Za-z0-9_.-] only and is not the traversal segment "..".
ResolvedFilenameSafe ==
  resolved.err = Success =>
    /\ InAllowList(resolved.filename)
    /\ resolved.filename # <<".", ".">>

\* The filename argument "/.." was returned as ".."
TraversalSegmentReturned ==
  /\ resolved.err = Success
  /\ source.filename = <<"/", ".", ".">>
  /\ resolved.filename = <<".", ".">>


(***************************************************************************)
(* Properties of the error rendering (SpecErrors)                          *)
(***************************************************************************)
\* The NormalizedError a boundary sent: the body of the HTTP response, or what
\* the text of the tool result spells out
renderedError ==
  IF rendered.boundary = "http" THEN rendered.body ELSE rendered.content.text.json

\* C33: whatever is thrown, the tool handler returns a result with isError set and
\* POST /messages sends a response, each carrying {ok: false, status, code,
\* message} and at most a details property next to them; the status, code and
\* message are those of a thrown AppError, and 500 INTERNAL_ERROR for any other value.
FailureRenderedStructured ==
  (rendered # NotRendered /\ outcome # CallReturned) =>
    /\ rendered.boundary = "tool" => rendered.isError
    /\ rendered.boundary = "http" => rendered.status = renderedError.status
    /\ {"ok", "status", "code", "message"} \subseteq DOMAIN renderedError
    /\ DOMAIN renderedError \subseteq {"ok", "status", "code", "message", "details"}
    /\ renderedError.ok = FALSE
    /\ outcome.kind = "AppError" =>
         /\ renderedError.status = outcome.statusCode
         /\ renderedError.code = outcome.code
         /\ renderedError.message = outcome.message
    /\ outcome.kind # "AppError" =>
         /\ renderedError.status = 500
         /\ renderedError.code = "INTERNAL_ERROR"

\* C33 witness: a tool handler whose provider call threw AppError(429,
\* TELEGRAM_API_ERROR) with details returned an isError result carrying them
WitnessFailureRenderedStructured ==
  /\ outcome.kind = "AppError"
  /\ outcome.statusCode = 429
  /\ outcome.code = "TELEGRAM_API_ERROR"
  /\ outcome.details = "object"
  /\ rendered.boundary = "tool"
  /\ rendered.isError
  /\ renderedError.status = 429
  /\ renderedError.details = "object"

\* A thrown value that is no Error was rendered as 500 INTERNAL_ERROR by POST /messages
WitnessNonErrorRendered ==
  /\ outcome = NonError("undefined")
  /\ rendered.boundary = "http"
  /\ rendered.status = 500
  /\ rendered.body.code = "INTERNAL_ERROR"
  /\ rendered.body.message = "Unknown error"


\* `await server.connect(transport)` of channel id has not settled
connectUnsettled(id) == id \in DOMAIN channel /\ channel[id].connect \in {"pending", "rejecting"}

\* C34: a session is in the registry only once its open has completed: while
\* `await server.connect(transport)` is unsettled, and after it failed, no
\* POST /messages naming the session is accepted.
HalfOpenNeverRouted ==
  [][\A r \in SessionPosts :
       \/ ~connectUnsettled(r.sessionId)
       \/ response'.status # 202
       \/ ~PostMessages(r.header, r.sessionId, r.body, r.allowLegacyBody)]_vars

\* Session 1 is in the registry while its connect, which will reject, is unsettled
HalfOpenSessionRegistered ==
  /\ 1 \in DOMAIN sessions
  /\ channel[1].connect = "rejecting"

\* A request for session 1 was accepted with 202 while its connect, which will
\* reject, was unsettled; no handler is in flight for it
HalfOpenSessionRouted ==
  /\ DOMAIN channel = {1}
  /\ channel[1].connect = "rejecting"
  /\ response = Accepted
  /\ forwarded = 1
  /\ inflight = {}


\* The message of the failure classified: description || "Telegram API request failed"
failureMessage == IF failure.description # "" THEN failure.description ELSE MsgDefault

\* The message holds one of the two patterns of a blocked or never opened dialogue
BlockedPattern ==
  \/ includes(failureMessage, "bot was blocked by the user")
  \/ includes(failureMessage, "can't initiate conversation")

\* The four conditions of the destination-not-found rule
NotFoundRule ==
  /\ failure.operation = "getChat"
  /\ failure.status = 400
  /\ failure.originalChatId # <<>> /\ Head(failure.originalChatId) = "@"
  /\ includes(failureMessage, "chat not found")

\* What the status alone decides
KindOfStatus ==
  IF failure.status = 403 THEN Failure(403, "TELEGRAM_FORBIDDEN")
  ELSE IF failure.status = 400 THEN Failure(400, "TELEGRAM_BAD_REQUEST")
  ELSE IF failure.status = 429 \/ failure.status >= 500
    THEN Failure(failure.status, "TELEGRAM_API_ERROR")
  ELSE Failure(IF failure.status = 0 THEN 502 ELSE failure.status,
               "TELEGRAM_MESSAGE_NOT_DELIVERED")

\* C35 as stated: a message holding one of the two patterns is always classified
\* as 403 TELEGRAM_FORBIDDEN, whatever the status, the operation and the destination.
BlockedAlwaysForbidden ==
  (classified # Pending /\ BlockedPattern) => classified = Failure(403, "TELEGRAM_FORBIDDEN")

\* C35: the decision list is ordered: first the destination-not-found rule (getChat,
\* status 400, alias destination, message holding "chat not found"), which alone
\* gives TELEGRAM_CHAT_NOT_FOUND; then the two patterns, which give 403
\* TELEGRAM_FORBIDDEN whatever the status; then the status: 403 Forbidden, 400
\* BadRequest, and below 500 other than 400, 403 and 429 the DeliveryFailed fallback.
DecisionListOrdered ==
  classified # Pending =>
    /\ classified.code = "TELEGRAM_CHAT_NOT_FOUND" <=> NotFoundRule
    /\ NotFoundRule => classified.status = 400
    /\ (~NotFoundRule /\ BlockedPattern) => classified = Failure(403, "TELEGRAM_FORBIDDEN")
    /\ (~NotFoundRule /\ ~BlockedPattern) => classified = KindOfStatus

\* C35 witness: a 400 whose message holds "bot was blocked by the user" was
\* classified as 403 TELEGRAM_FORBIDDEN
WitnessDecisionListOrdered ==
  /\ failure.status = 400
  /\ failure.description = MsgBlocked
  /\ classified = Failure(403, "TELEGRAM_FORBIDDEN")

\* "chat not found" for a numeric destination of getChat was classified as BadRequest
WitnessNumericNotFoundBadRequest ==
  /\ failure = [status |-> 400, description |-> MsgChatNotFound, operation |-> "getChat",
                originalChatId |-> Dest1]
  /\ classified = Failure(400, "TELEGRAM_BAD_REQUEST")

\* A message holding both "chat not found" and "bot was blocked by the user" was
\* classified as TELEGRAM_CHAT_NOT_FOUND
BlockedClassifiedNotFound ==
  /\ failure.description = MsgNotFoundBlocked
  /\ classified = Failure(400, "TELEGRAM_CHAT_NOT_FOUND")


(***************************************************************************)
(* Properties of the limiter under its refill timer (SpecLimiterFair)      *)
(***************************************************************************)
Smaller(a, b) == IF a < b THEN a ELSE b

\* ceil(p / lim)
CeilDiv(p, lim) == (p + lim - 1) \div lim

\* A step of the refill timer: no acquire() call is counted by it
RefillStep == nextTicket' = nextTicket

\* A refill tick releases the first min(queue length, limit) waiters, in order,
\* and leaves limit minus their number as tokens
RefillReleasesHead ==
  RefillStep =>
    LET k == Smaller(Len(queue), limit)
    IN  /\ granted' = granted \o SubSeq(queue, 1, k)
        /\ queue' = SubSeq(queue, k + 1, Len(queue))
        /\ tokens' = limit - k

\* A caller queued at position pos has been granted exactly when it has seen
\* ceil(pos / limit) refill ticks
GrantedAtCeilTick ==
  \A t \in DOMAIN waits :
    IF t \in SeqRange(granted)
      THEN waits[t].ticks = CeilDiv(waits[t].pos, limit)
      ELSE t \in SeqRange(queue) /\ waits[t].ticks < CeilDiv(waits[t].pos, limit)

\* C36: with limit >= 1 and the refill timer firing for ever, every acquire() is
\* eventually granted; a refill tick releases exactly min(queue length, limit)
\* waiters from the head of the queue and leaves tokens = limit minus the number
\* released; a caller queued at position p is granted at the ceil(p / limit)-th
\* refill tick after it queued.
EveryAcquireGranted ==
  /\ \A t \in 1..MaxTickets : (nextTicket >= t) ~> (t \in SeqRange(granted))
  /\ [][RefillReleasesHead]_vars
  /\ []GrantedAtCeilTick

\* C36 witness: with limit 2, the caller queued at position 3 was granted at the
\* second refill tick after it queued
WitnessEveryAcquireGranted ==
  /\ limit = 2
  /\ \E t \in DOMAIN waits :
       /\ waits[t] = [pos |-> 3, ticks |-> 2]
       /\ t \in SeqRange(granted)
  /\ queue = <<>>

\* A refill tick released limit waiters and left others in the queue, with no token
WitnessRefillReleasedLimit ==
  /\ limit = 2
  /\ sinceTick = 2
  /\ Len(queue) > 0
  /\ tokens = 0


\* normalizeIncomingMessage applied to the envelope it returned, with the legacy
\* flag set to allowLegacy; randomUUID() gives another id than before
Renormalized(allowLegacy) == normalizeIncomingMessage(normalized.msg, allowLegacy, "uuid-2")

\* The envelope returned is of the canonical shape: its method is no alias
\* spelling and it has no member of the legacy dialect
CanonicalShape ==
  /\ normalized.msg.method \notin {JStr("call_tool"), JStr("list_tools")}
  /\ normalized.msg.tool = Undefined
  /\ normalized.msg.arguments = Undefined

\* C37: an envelope normalizeIncomingMessage returned is returned unchanged when
\* it is normalized again, whatever the legacy flag; its method is no alias
\* spelling and it has no member of the legacy dialect.
NormalizationIdempotent ==
  normalized.err = Success =>
    /\ CanonicalShape
    /\ \A allowLegacy \in BOOLEAN : Renormalized(allowLegacy) = Returned(normalized.msg)

\* The same for the envelopes whose method is a string
StringMethodIdempotent ==
  (normalized.err = Success /\ normalized.msg.method.t = "string") =>
    /\ CanonicalShape
    /\ \A allowLegacy \in BOOLEAN : Renormalized(allowLegacy) = Returned(normalized.msg)

\* The envelope returned for the method "toString" is refused with 400
\* INVALID_JSON when it is normalized again
InheritedMethodRefusedAgain ==
  /\ raw.input = InheritedMethodCall
  /\ normalized.err = Success
  /\ Renormalized(TRUE) = Thrown(Failure(400, "INVALID_JSON"))

\* A legacy body without id was wrapped, and the envelope is returned unchanged,
\* generated id included, when normalized again
LegacyEnvelopeStable ==
  /\ MatchesLegacyOnly(raw.input)
  /\ candidateOf(raw.input).id = Undefined
  /\ normalized.err = Success
  /\ normalized.msg.id = JStr(GeneratedId)
  /\ Renormalized(FALSE) = Returned(normalized.msg)


\* The input also has the member of the legacy dialect: a non-empty tool string
HasLegacyMember(input) ==
  candidateOf(input).tool.t = "string" /\ candidateOf(input).tool.v # <<"">>

WitnessLegacyMembersIgnored ==
  /\ MatchesCanonical(raw.input)
  /\ candidateOf(raw.input).arguments = JStr("x")
  /\ candidateOf(raw.input).method = JStr("call_tool")
  /\ normalized.err = Success
  /\ normalized.msg.method = JStr("tools/call")
  /\ normalized.msg.params = CallParams


\* C39: an envelope returned for an input of the canonical dialect carries the
\* input's id, of the same type and value, and none when the input has none; an
\* envelope returned for a legacy input carries the input's id unchanged, and
\* the generated id only when the input has none.
IdKeptOrGenerated ==
  normalized.err = Success =>
    IF MatchesCanonical(raw.input)
      THEN normalized.msg.id = candidateOf(raw.input).id
      ELSE IF candidateOf(raw.input).id = Undefined
        THEN normalized.msg.id = JStr(GeneratedId)
        ELSE normalized.msg.id = candidateOf(raw.input).id

\* C39 witness: a legacy body with the id 0 was wrapped with the id 0
WitnessIdKeptOrGenerated ==
  /\ MatchesLegacyOnly(raw.input)
  /\ candidateOf(raw.input).id = JNum(0)
  /\ normalized.err = Success
  /\ normalized.msg.id = JNum(0)

\* A canonical notification was returned without an id
WitnessNoIdInvented ==
  /\ MatchesCanonical(raw.input)
  /\ candidateOf(raw.input).id = Undefined
  /\ normalized.err = Success
  /\ normalized.msg.id = Undefined

\* A legacy body without id was wrapped with the generated id
WitnessIdGenerated ==
  /\ MatchesLegacyOnly(raw.input)
  /\ candidateOf(raw.input).id = Undefined
  /\ normalized.err = Success
  /\ normalized.msg.id = JStr(GeneratedId)


\* An attempt that ended without any HTTP response (connection error or timeout)
WithoutResponse(seen) == seen.http = 0

\* Every attempt of the request call c failed without a response
AllWithoutResponse(c) ==
  /\ call[c].hist # <<>>
  /\ \A i \in 1..Len(call[c].hist) : WithoutResponse(call[c].hist[i])

\* The attempt whose failure call c raised
RaisedFrom(c) == call[c].hist[Len(call[c].hist)]

\* C40: a call whose every attempt fails without any HTTP response raises, once
\* its retries are exhausted (maxRetries + 1 attempts), an error with status 500
\* and the kind TELEGRAM_API_ERROR, never TELEGRAM_MESSAGE_NOT_DELIVERED; and a
\* call raises TELEGRAM_MESSAGE_NOT_DELIVERED only from an attempt that carried
\* an HTTP status below 500, with that status.
NoResponseRaisesApiError ==
  \A c \in Calls :
    /\ (call[c].outcome = "threw" /\ AllWithoutResponse(c)) =>
         /\ Len(call[c].hist) = maxRetries + 1
         /\ call[c].result = Failure(500, "TELEGRAM_API_ERROR")
    /\ (call[c].pc = "done" /\ call[c].result.code = "TELEGRAM_MESSAGE_NOT_DELIVERED") =>
         /\ call[c].outcome = "threw"
         /\ RejectedBelow500(RaisedFrom(c))
         /\ call[c].result.status = RaisedFrom(c).http

\* A call raised after a timeout and a connection reset, its retries exhausted
WitnessNoResponseRaisesApiError ==
  \E c \in Calls :
    /\ call[c].outcome = "threw"
    /\ maxRetries >= 1
    /\ Len(call[c].hist) = maxRetries + 1
    /\ AllWithoutResponse(c)
    /\ call[c].result = Failure(500, "TELEGRAM_API_ERROR")

\* A call raised with the fallback kind, from a 404 response
WitnessFallbackFromResponse ==
  \E c \in Calls :
    /\ call[c].outcome = "threw"
    /\ RaisedFrom(c) = Seen(Reply404)
    /\ call[c].result = Failure(404, "TELEGRAM_MESSAGE_NOT_DELIVERED")

====
